---- MODULE Spec2Model ----
(***************************************************************************)
(* SafeRun scan pipeline: Sandbox (core/sandbox.py), the isolation layer   *)
(* (core/isolation.py) with its platform handlers (platforms/*.py), the    *)
(* ProcessMonitor (core/monitor.py), the ThreatDetector                    *)
(* (core/threat_detector.py) and the FileAnalyzer (utils/file_analyzer.py).*)
(*                                                                         *)
(* Scores are floats in the source.  Every score the pipeline adds is a    *)
(* multiple of 0.1 and every sum is rounded to two decimals or capped at   *)
(* 1.0 before it is compared, so scores are modelled as integers in        *)
(* hundredths (0.4 is 40, the cap 1.0 is 100).                             *)
(***************************************************************************)
EXTENDS Integers, Sequences, FiniteSets, TLC

(* ------------------------------ bounds --------------------------------- *)
\* polling ticks of the monitor loop in one session
MaxTicks == 2

(* --------------------------- small universes --------------------------- *)
Systems == {"windows", "linux"}
Methods == {"container", "process", "virtual"}
Levels == {"low", "medium", "high", "paranoid"}

\* str.lower() on the method and level strings (those of the universe are
\* in lower case already)
Lower(s) == IF s = "HIGH" THEN "high" ELSE s

None == 0

Min(a, b) == IF a < b THEN a ELSE b

VARIABLES
    system,          \* platform.system().lower(), isolation.py:9
    containerAvail,  \* outcome of check_container_support()
    processAvail,    \* outcome of check_isolation_support()
    method,          \* Sandbox.isolation_method
    target,          \* what the target does when run: the files, endpoints
                     \* and modules the inspection calls can report
    security_level,  \* Sandbox.security_level
    pc,              \* position of the foreground task
    td_env,          \* ThreatDetector.isolation_env (kind only)
    isolation_env,   \* Sandbox.isolation_env
    sandbox_dir,     \* whether Sandbox.sandbox_dir exists on disk
    log_dir,         \* whether ProcessMonitor.log_dir exists on disk
    probes,          \* is_available() calls so far: <<kind, result>>
    calls,           \* backend calls so far
    scans,           \* execute_file calls started on this Sandbox
    file,            \* the target file of the current scan
    monitor,         \* the monitor argument of execute_file
    analysis_result, \* FileAnalyzer.analyze's result
    execution_result,\* execute_file's execution_result
    procs,           \* state of every process spawned, by handle
    containers,      \* state of every container created, by id
    scan_limit,      \* files the caller hands to this Sandbox
    monitoring,      \* ProcessMonitor.monitoring, the running flag
    mpc,             \* position of the monitoring thread
    monitoring_data, \* ProcessMonitor.monitoring_data, the record lists
    saved_score,     \* monitoring_data["threat_score"], -1 while unset
    threat_score,    \* ProcessMonitor.threat_score
    mon_pid,         \* ProcessMonitor.pid
    ticks,           \* polling ticks the thread has completed
    join_outcome,    \* how the join of stop_monitoring ended
    monitor_results, \* execute_file's monitor_results: "empty" or "alias"
    dynamic_analysis,\* ThreatDetector.analyze_report's result
    report,          \* the report execute_file built last
    cleanups,        \* history: Sandbox.cleanup calls since the scan began
    session,         \* history: the scan whose monitoring thread ran last
    replayed,        \* history: a sample reported a key already recorded
    errors,          \* history: the steps of this scan in which an error
                     \* occurred (raised, swallowed, or reported by the
                     \* backend)
    signatures,      \* ThreatDetector.signatures, the signature registry
    td_file,         \* the file a caller hands to analyze_file
    td_report,       \* the activity report a caller hands to analyze_report
    td_calls,        \* history: the detector's entry points called by that
                     \* caller, each with what it returned
    exit_status,     \* what main() returned to the shell, -1 while it has
                     \* not returned
    backend_exit,    \* history: the exit_code in the result the backend's
                     \* execute call returned in this scan, NoExit when it
                     \* returned none
    first_stop       \* history: the records and the score stop_monitoring
                     \* had returned when it was called once more

\* the registry, and the inputs and the log of the detector's direct calls
detVars == <<signatures, td_file, td_report, td_calls>>
\* what no step of a scan assigns
envVars == <<system, containerAvail, processAvail, method, target, detVars,
             exit_status, first_stop>>
ctorVars == <<td_env, log_dir, probes>>
scanVars == <<scans, file, monitor, analysis_result, execution_result,
              scan_limit>>
backendVars == <<procs, containers, calls>>
monVars == <<monitoring, mpc, monitoring_data, saved_score, threat_score,
             mon_pid, ticks, join_outcome>>
outVars == <<monitor_results, dynamic_analysis, report, backend_exit>>
histVars == <<cleanups, session, replayed, errors>>

vars == <<envVars, ctorVars, scanVars, backendVars, monVars, outVars,
          histVars,
          security_level, pc, isolation_env, sandbox_dir>>

(* ----------------------- core/isolation.py ----------------------------- *)
\* ContainerIsolation.__init__ / ProcessIsolation.__init__: the level is
\* lower-cased and an unrecognized one becomes "medium"
NormalizeLevel(lvl) ==
    IF Lower(lvl) \in {"low", "medium", "high"} THEN Lower(lvl) ELSE "medium"

NoEnv == [kind |-> "none", security_level |-> "none",
          container_id |-> None, process |-> None]

NewEnv(k, lvl) == [kind |-> k, security_level |-> NormalizeLevel(lvl),
                   container_id |-> None, process |-> None]

\* is_available() of the two variants
IsAvailable(k) == IF k = "container" THEN containerAvail ELSE processAvail

\* mutant: the Container variant is returned without looking at its probe
GetIsolationEnvironmentUnprobed(m, lvl) ==
    [env    |-> IF m = "container" THEN NewEnv("container", lvl)
                ELSE IF m = "process" /\ IsAvailable("process")
                THEN NewEnv("process", lvl) ELSE NoEnv,
     raised |-> ~(m = "container" \/ (m = "process" /\ IsAvailable("process"))),
     probes |-> IF m = "process"
                THEN <<[kind |-> "process", result |-> IsAvailable("process")]>>
                ELSE <<>>]

\* mutant: no fallback from Container to Process
GetIsolationEnvironmentNoFallback(m, lvl) ==
    LET k == IF m \in {"container", "process"} THEN m ELSE "none"
        ok == k # "none" /\ IsAvailable(k)
    IN [env    |-> IF ok THEN NewEnv(k, lvl) ELSE NoEnv,
        raised |-> ~ok,
        probes |-> IF k = "none" THEN <<>>
                   ELSE <<[kind |-> k, result |-> IsAvailable(k)]>>]

\* get_isolation_environment(method, security_level): the environment it
\* returns (kind "none" when it raises) and the probes it made, in order
GetIsolationEnvironment(m, lvl) ==
    LET tryContainer == (m = "container")
        gotContainer == tryContainer /\ IsAvailable("container")
        tryProcess   == ~gotContainer /\ m \in {"process", "container"}
        gotProcess   == tryProcess /\ IsAvailable("process")
        p1 == IF tryContainer
              THEN <<[kind |-> "container", result |-> IsAvailable("container")]>>
              ELSE <<>>
        p2 == IF tryProcess
              THEN <<[kind |-> "process", result |-> IsAvailable("process")]>>
              ELSE <<>>
    IN [env    |-> IF gotContainer THEN NewEnv("container", lvl)
                   ELSE IF gotProcess THEN NewEnv("process", lvl)
                   ELSE NoEnv,
        raised |-> ~gotContainer /\ ~gotProcess,
        probes |-> p1 \o p2]

(* ------------------------------ strings -------------------------------- *)
\* A string is a sequence of tokens; a backslash is a token of its own, so
\* that JSON escaping (which doubles it) and substring tests can be
\* computed.  Records hold a short name of a string; Text gives its tokens.
BS == "\\"

RECURSIVE Join(_)
\* components joined by backslashes: <<"C:", "Windows">> is C:\Windows
Join(comps) ==
    IF Len(comps) <= 1 THEN comps
    ELSE <<Head(comps), BS>> \o Join(Tail(comps))

\* needle in hay (Python's substring test, on tokens)
Contains(hay, needle) ==
    \E i \in 1..(Len(hay) - Len(needle) + 1) :
        SubSeq(hay, i, i + Len(needle) - 1) = needle

\* str.lower(), token by token
LowerTok(t) ==
    CASE t = "C:" -> "c:"
      [] t = "Windows" -> "windows"
      [] t = "System32" -> "system32"
      [] t = "SAM" -> "sam"
      [] t = "HKEY_LOCAL_MACHINE" -> "hkey_local_machine"
      [] t = "SOFTWARE" -> "software"
      [] t = "Software" -> "software"
      [] t = "Microsoft" -> "microsoft"
      [] t = "CurrentVersion" -> "currentversion"
      [] t = "Run" -> "run"
      [] OTHER -> t

LowerStr(str) == [i \in 1..Len(str) |-> LowerTok(str[i])]

RECURSIVE JsonEscape(_)
\* the body of a JSON string literal: every backslash is doubled
JsonEscape(str) ==
    IF str = <<>> THEN <<>>
    ELSE (IF Head(str) = BS THEN <<BS, BS>> ELSE <<Head(str)>>)
         \o JsonEscape(Tail(str))

PathIds == {"passwd", "tmp", "winconfig"}
RemoteIds == {"c2", "web"}
DllIds == {"advapi", "kernel"}

RunKey == Join(<<"HKEY_LOCAL_MACHINE", "SOFTWARE", "Microsoft", "Windows",
                 "CurrentVersion", "Run">>)

\* the strings of the universe
Text(id) ==
    CASE id = "passwd"    -> <<"/etc/passwd">>
      [] id = "tmp"       -> <<"/tmp/out.txt">>
      [] id = "winconfig" -> Join(<<"C:", "Windows", "System32", "config",
                                    "SAM">>)
      [] id = "c2"        -> <<"10.0.0.5", ":4444">>
      [] id = "web"       -> <<"93.184.216.34", ":443">>
      [] id = "c2dom"     -> <<"malicious.example.com", ":4444">>
      [] id = "advapi"    -> Join(<<"c:", "windows", "system32",
                                    "advapi32.dll">>)
      [] id = "kernel"    -> Join(<<"c:", "windows", "system32",
                                    "kernel32.dll">>)
      [] id = "runkey"    -> RunKey
      [] OTHER            -> <<id>>

(* --------------------------- core/monitor.py --------------------------- *)
\* ProcessMonitor.suspicious_patterns, monitor.py:31-38
SuspiciousFiles == <<Join(<<"C:", "Windows", "System32", "config">>),
                     <<"/etc/passwd">>>>
SuspiciousNetwork == <<<<"malicious.example.com">>, <<":4444">>, <<":1337">>,
                       <<":31337">>>>

\* monitoring_data as ProcessMonitor.__init__ builds it, monitor.py:25-29
FreshMonitoringData ==
    [k \in {"file_accesses", "network_connections", "registry_activities"}
       |-> <<>>]

\* dict.get(key, []) and dict.pop(key, [])
GetList(d, k) == IF k \in DOMAIN d THEN d[k] ELSE <<>>

\* the number of patterns of a table that occur in a string
Matches(patterns, str) ==
    Cardinality({i \in 1..Len(patterns) : Contains(str, patterns[i])})

RECURSIVE FileActivityNoDedup(_, _, _, _)
\* mutant: every reported path is appended, recorded already or not
FileActivityNoDedup(open, recs, score, now) ==
    IF open = <<>> THEN [recs |-> recs, score |-> score]
    ELSE FileActivityNoDedup(Tail(open),
             Append(recs, [timestamp |-> now, path |-> Head(open)]),
             score + 10 * Matches(SuspiciousFiles, Text(Head(open))), now)

RECURSIVE FileActivityEveryPath(_, _, _, _)
\* mutant: every new path adds to the score, sensitive or not
FileActivityEveryPath(open, recs, score, now) ==
    IF open = <<>> THEN [recs |-> recs, score |-> score]
    ELSE LET path == Head(open)
             seen == \E i \in 1..Len(recs) : recs[i].path = path
         IN IF seen THEN FileActivityEveryPath(Tail(open), recs, score, now)
            ELSE FileActivityEveryPath(Tail(open),
                     Append(recs, [timestamp |-> now, path |-> path]),
                     score + 10, now)

RECURSIVE FileActivity(_, _, _, _)
\* _monitor_file_activity over the enumeration `open`: the records and the
\* running score it leaves (monitor.py:117-126)
FileActivity(open, recs, score, now) ==
    IF open = <<>> THEN [recs |-> recs, score |-> score]
    ELSE LET path == Head(open)
             seen == \E i \in 1..Len(recs) : recs[i].path = path
         IN IF seen THEN FileActivity(Tail(open), recs, score, now)
            ELSE FileActivity(Tail(open),
                     Append(recs, [timestamp |-> now, path |-> path]),
                     score + 10 * Matches(SuspiciousFiles, Text(path)), now)

RECURSIVE NetworkActivity(_, _, _, _)
\* _monitor_network_activity over the established connections
\* (monitor.py:132-142): the increment is outside the "new endpoint" test
NetworkActivity(conns, recs, score, now) ==
    IF conns = <<>> THEN [recs |-> recs, score |-> score]
    ELSE LET remote == Head(conns)
             seen == \E i \in 1..Len(recs) : recs[i].remote = remote
             recs2 == IF seen THEN recs
                      ELSE Append(recs, [timestamp |-> now,
                                         remote |-> remote])
         IN NetworkActivity(Tail(conns), recs2,
                score + 20 * Matches(SuspiciousNetwork, Text(remote)), now)

RECURSIVE RegistryActivity(_, _, _, _)
\* _monitor_registry_activity over the memory maps (monitor.py:148-158)
RegistryActivity(dlls, recs, score, now) ==
    IF dlls = <<>> THEN [recs |-> recs, score |-> score]
    ELSE LET path == Head(dlls)
             seen == \E i \in 1..Len(recs) : recs[i].dll = path
         IN IF Contains(Text(path), <<"advapi32.dll">>) /\ ~seen
            THEN RegistryActivity(Tail(dlls),
                     Append(recs, [timestamp |-> now, dll |-> path,
                                   key |-> "runkey"]),
                     score + 5, now)
            ELSE RegistryActivity(Tail(dlls), recs, score, now)

(* ----------------------- core/threat_detector.py ----------------------- *)
\* ThreatDetector._load_signatures, threat_detector.py:66-95
Signatures == <<
    [id |-> "SIG-001", name |-> "System File Access",
     indicators |-> <<<<"/etc/passwd">>,
                      Join(<<"C:", "Windows", "System32", "config">>)>>,
     severity |-> "HIGH", category |-> "File Access",
     platforms |-> {"linux", "windows", "macos"}],
    [id |-> "SIG-002", name |-> "Registry Modification",
     indicators |-> <<Join(<<"HKEY_LOCAL_MACHINE", "Software", "Microsoft",
                             "Windows", "CurrentVersion", "Run">>)>>,
     severity |-> "MEDIUM", category |-> "Registry Modification",
     platforms |-> {"windows"}],
    [id |-> "SIG-003", name |-> "Suspicious Network Connection",
     indicators |-> <<<<":4444">>, <<":1337">>, <<":31337">>, <<":8080">>,
                      <<"malicious.example.com">>>>,
     severity |-> "HIGH", category |-> "Network Activity",
     platforms |-> {"all"}] >>

\* the severity weights of analyze_report, threat_detector.py:166-171: a
\* severity missing from the table weighs 0.1
SeverityWeight(sev) ==
    CASE sev = "CRITICAL" -> 100
      [] sev = "HIGH"     -> 40
      [] sev = "MEDIUM"   -> 20
      [] sev = "LOW"      -> 10
      [] OTHER            -> 10

\* json.dumps(entry).lower() of an activity record, threat_detector.py:160
DataStr(entry) ==
    LET field(k, v) == <<"\"" \o k \o "\": \"">> \o JsonEscape(v) \o <<"\"">>
        ts == <<"t", ToString(entry.timestamp)>>
        body ==
          IF "path" \in DOMAIN entry
          THEN field("timestamp", ts) \o field("path", Text(entry.path))
          ELSE IF "remote" \in DOMAIN entry
          THEN field("timestamp", ts) \o field("remote", Text(entry.remote))
          ELSE field("timestamp", ts) \o field("dll", Text(entry.dll))
               \o field("key", Text(entry.key))
    IN LowerStr(<<"{">> \o body \o <<"}">>)

\* the platform test of analyze_report, threat_detector.py:162
SignatureApplies(sig, sys) ==
    ~(sys \notin sig.platforms /\ "all" \notin sig.platforms)

\* the first indicator of sig found in the record's text, 0 when none
FirstIndicator(sig, str) ==
    LET hits == {i \in 1..Len(sig.indicators) :
                    Contains(str, LowerStr(sig.indicators[i]))}
    IN IF hits = {} THEN 0
       ELSE CHOOSE i \in hits : \A j \in hits : i <= j

\* the findings of a record for every indicator of sig it contains
IndicatorThreats(sig, str) ==
    LET hits == {i \in 1..Len(sig.indicators) :
                    Contains(str, LowerStr(sig.indicators[i]))}
        RECURSIVE from(_)
        from(i) == IF i > Len(sig.indicators) THEN <<>>
                   ELSE (IF i \in hits
                         THEN <<[signature_id |-> sig.id,
                                 threat_level |-> sig.severity,
                                 details |-> i]>>
                         ELSE <<>>) \o from(i + 1)
    IN from(1)

RECURSIVE EntryThreatsEveryIndicator(_, _, _)
\* mutant: the indicator loop has no break, every indicator found counts
EntryThreatsEveryIndicator(entry, n, sys) ==
    IF n > Len(signatures) THEN <<>>
    ELSE (IF SignatureApplies(signatures[n], sys)
          THEN IndicatorThreats(signatures[n], DataStr(entry))
          ELSE <<>>) \o EntryThreatsEveryIndicator(entry, n + 1, sys)

RECURSIVE EntryThreats(_, _, _)
\* the findings one record adds, over the signatures of the registry from
\* index n on
EntryThreats(entry, n, sys) ==
    IF n > Len(signatures) THEN <<>>
    ELSE LET sig == signatures[n]
             i == FirstIndicator(sig, DataStr(entry))
         IN (IF SignatureApplies(sig, sys) /\ i # 0
             THEN <<[signature_id |-> sig.id, threat_level |-> sig.severity,
                     details |-> i]>>
             ELSE <<>>) \o EntryThreats(entry, n + 1, sys)

RECURSIVE ReportThreats(_, _)
ReportThreats(entries, sys) ==
    IF entries = <<>> THEN <<>>
    ELSE EntryThreats(Head(entries), 1, sys)
         \o ReportThreats(Tail(entries), sys)

RECURSIVE SumWeights(_)
SumWeights(threats) ==
    IF threats = <<>> THEN 0
    ELSE SeverityWeight(Head(threats).threat_level)
         + SumWeights(Tail(threats))

\* mutant: only the findings of the first record are scored
AnalyzeReportFirstOnly(rep, sys) ==
    LET all_entries == GetList(rep, "file_operations")
                       \o GetList(rep, "network_activity")
                       \o GetList(rep, "registry_operations")
        threats == ReportThreats(all_entries, sys)
        first == IF all_entries = <<>> THEN <<>>
                 ELSE EntryThreats(Head(all_entries), 1, sys)
    IN [threat_score |-> Min(SumWeights(first), 100), threats |-> threats]

\* ThreatDetector.analyze_report, threat_detector.py:148-190
AnalyzeReport(rep, sys) ==
    LET all_entries == GetList(rep, "file_operations")
                       \o GetList(rep, "network_activity")
                       \o GetList(rep, "registry_operations")
        threats == ReportThreats(all_entries, sys)
    IN [threat_score |-> Min(SumWeights(threats), 100), threats |-> threats]

\* mutant: the sum is not capped
CombinedScoreUncapped(static, dynamic) == static + dynamic

\* sandbox.py:128
CombinedScore(static, dynamic) == Min(static + dynamic, 100)

(* ---------------- ThreatDetector.analyze_file -------------------------- *)
\* the keyword table of analyze_file, threat_detector.py:114-127
Keywords == <<
    [kw |-> "cmd.exe", level |-> "MEDIUM"],
    [kw |-> "powershell", level |-> "MEDIUM"],
    [kw |-> "CreateProcess", level |-> "HIGH"],
    [kw |-> "WriteProcessMemory", level |-> "HIGH"],
    [kw |-> "curl", level |-> "LOW"],
    [kw |-> "wget", level |-> "LOW"],
    [kw |-> "socket", level |-> "MEDIUM"],
    [kw |-> "registry", level |-> "MEDIUM"],
    [kw |-> "os.system", level |-> "MEDIUM"],
    [kw |-> "eval", level |-> "HIGH"],
    [kw |-> "exec", level |-> "HIGH"],
    [kw |-> "malicious.example.com", level |-> "HIGH"] >>

\* the weight table of analyze_file, threat_detector.py:131-136: a level
\* missing from the table weighs 0.1
KeywordWeight(level) ==
    CASE level = "CRITICAL" -> 100
      [] level = "HIGH"     -> 40
      [] level = "MEDIUM"   -> 20
      [] level = "LOW"      -> 10
      [] OTHER              -> 10

\* str.lower() on the extensions of the universe
LowerExt(e) == IF e = ".PY" THEN ".py" ELSE e

\* the extension branch of analyze_file, threat_detector.py:100-108: what
\* it adds to the score and the finding it appends
ExtensionScore(e) ==
    IF LowerExt(e) \in {".exe", ".dll", ".bat", ".ps1"} THEN 20
    ELSE IF LowerExt(e) \in {".py", ".js", ".vba"} THEN 10
    ELSE 0

ExtensionThreats(e) ==
    IF LowerExt(e) \in {".exe", ".dll", ".bat", ".ps1"}
    THEN <<[type |-> "extension", details |-> LowerExt(e),
            confidence |-> 80]>>
    ELSE IF LowerExt(e) \in {".py", ".js", ".vba"}
    THEN <<[type |-> "script", details |-> LowerExt(e), confidence |-> 60]>>
    ELSE <<>>

\* `kw in content`, threat_detector.py:130, a substring test on the bytes
KeywordPresent(content, n) == Contains(content, <<Keywords[n].kw>>)

RECURSIVE KeywordThreats(_, _)
\* the findings of the keyword loop over the table from index n on,
\* threat_detector.py:129-138
KeywordThreats(content, n) ==
    IF n > Len(Keywords) THEN <<>>
    ELSE (IF KeywordPresent(content, n)
          THEN <<[type |-> "keyword", details |-> Keywords[n].kw,
                  level |-> Keywords[n].level]>>
          ELSE <<>>) \o KeywordThreats(content, n + 1)

RECURSIVE KeywordScoreFlat(_, _)
\* mutant: every keyword found weighs 0.1
KeywordScoreFlat(content, n) ==
    IF n > Len(Keywords) THEN 0
    ELSE (IF KeywordPresent(content, n) THEN 10 ELSE 0)
         + KeywordScoreFlat(content, n + 1)

RECURSIVE KeywordScore(_, _)
\* what the keyword loop adds to the score: a keyword found adds its weight
\* once, however often it occurs
KeywordScore(content, n) ==
    IF n > Len(Keywords) THEN 0
    ELSE (IF KeywordPresent(content, n)
          THEN KeywordWeight(Keywords[n].level) ELSE 0)
         + KeywordScore(content, n + 1)

\* ThreatDetector.analyze_file, threat_detector.py:97-146: a file that
\* cannot be opened or read gets an error finding and no keyword weight.
\* The float sum of the source differs from the decimal sum by less than
\* 1e-15 and is held here as the decimal sum.
AnalyzeFile(f) ==
    IF f.readable
    THEN [threat_score |-> Min(ExtensionScore(f.ext)
                                 + KeywordScore(f.content, 1), 100),
          threats |-> ExtensionThreats(f.ext)
                      \o KeywordThreats(f.content, 1)]
    ELSE [threat_score |-> Min(ExtensionScore(f.ext), 100),
          threats |-> ExtensionThreats(f.ext)
                      \o <<[type |-> "error", details |-> "open failed",
                            confidence |-> 10]>>]

(* ------------------------- Sandbox.__init__ ---------------------------- *)
\* mutant: the detector is built without selecting an environment
ThreatDetectorInitNoEnv ==
    /\ pc = "new"
    /\ pc' = "pm_init"
    /\ UNCHANGED <<envVars, histVars, ctorVars, scanVars, backendVars,
                   monVars, outVars, security_level, isolation_env,
                   sandbox_dir>>

\* sandbox.py:24, ThreatDetector.__init__ selects an environment of its own
ThreatDetectorInit ==
    /\ pc = "new"
    /\ LET r == GetIsolationEnvironment(method, security_level) IN
         /\ probes' = probes \o r.probes
         /\ td_env' = r.env.kind
         /\ pc' = IF r.raised THEN "ctor_raised" ELSE "pm_init"
    /\ UNCHANGED <<envVars, histVars, scanVars, backendVars, monVars, outVars, security_level,
                   isolation_env, sandbox_dir, log_dir>>

\* sandbox.py:25, ProcessMonitor.__init__ creates the monitor's log directory
ProcessMonitorInit ==
    /\ pc = "pm_init"
    /\ log_dir' = TRUE
    /\ pc' = "get_env"
    /\ UNCHANGED <<envVars, histVars, scanVars, backendVars, monVars, outVars, security_level,
                   isolation_env, sandbox_dir, td_env, probes>>

\* sandbox.py:26
SandboxGetEnv ==
    /\ pc = "get_env"
    /\ LET r == GetIsolationEnvironment(method, security_level) IN
         /\ probes' = probes \o r.probes
         /\ isolation_env' = r.env
         /\ pc' = IF r.raised THEN "ctor_raised" ELSE "mkdir"
    /\ UNCHANGED <<envVars, histVars, scanVars, backendVars, monVars, outVars, security_level,
                   sandbox_dir, td_env, log_dir>>

\* sandbox.py:28
SandboxMakeDir ==
    /\ pc = "mkdir"
    /\ sandbox_dir' = TRUE
    /\ pc' = "ready"
    /\ UNCHANGED <<envVars, histVars, ctorVars, scanVars, backendVars, monVars, outVars, security_level,
                   isolation_env>>

(* ---------------------- utils/file_analyzer.py ------------------------- *)
\* the patterns of _check_script_for_suspicious_patterns, in table order
PatternNames == <<"Obfuscation", "System Access", "Privilege Escalation",
                  "Network Connection", "Data Exfiltration",
                  "Registry Access", "Browser Exploit">>

\* patterns of the table a file of the universe may contain (a file with
\* hits = k contains the first k patterns of the table)
MaxHits == 1

Exts == {".exe", ".sh", ".txt"}

NoFile == [exists |-> FALSE, readable |-> FALSE, ext |-> ".txt",
           xbit |-> FALSE, hits |-> 0]

Files ==
    {NoFile}
    \cup {[exists |-> TRUE, readable |-> FALSE, ext |-> ".exe",
           xbit |-> FALSE, hits |-> 0]}
    \cup {[exists |-> TRUE, readable |-> TRUE, ext |-> e, xbit |-> x,
           hits |-> h] :
            e \in Exts, x \in BOOLEAN,
            h \in 0..(IF MaxHits < Len(PatternNames) THEN MaxHits
                      ELSE Len(PatternNames))}

\* settings.EXECUTABLE_EXTENSIONS, restricted to the universe Exts
ExecutableExtensions(sys) ==
    IF sys = "windows" THEN {".exe"} ELSE {".sh"}

\* FileAnalyzer._is_executable
IsExecutable(f, sys) ==
    IF f.ext \in ExecutableExtensions(sys) THEN TRUE
    ELSE IF sys = "linux" THEN f.xbit
    ELSE FALSE

PatternThreats(k) ==
    [i \in 1..k |-> [signature_name |-> PatternNames[i], threat_level |-> 10]]

\* FileAnalyzer.analyze
Analyze(f, sys) ==
    IF ~f.exists
    THEN [error |-> "File not found", threat_level |-> 0, threats |-> <<>>]
    ELSE IF ~f.readable
    THEN [error |-> "Analysis failed", threat_level |-> 50, threats |-> <<>>]
    ELSE
      LET exe    == IsExecutable(f, sys)
          script == f.ext \in {".sh", ".py", ".bat", ".ps1"}
          t1 == IF exe THEN <<[signature_name |-> "Executable file detected",
                               threat_level |-> 30]>> ELSE <<>>
          t2 == IF script
                THEN <<[signature_name |-> "Script file detected",
                        threat_level |-> 10]>> \o PatternThreats(f.hits)
                ELSE <<>>
          raw == (IF exe THEN 30 ELSE 0)
                 + (IF script THEN 10 + 10 * f.hits ELSE 0)
      IN [error |-> "", threat_level |-> Min(raw, 100), threats |-> t1 \o t2]

NoReport == [scan |-> 0]

NoAnalysis == [error |-> "", threat_level |-> 0, threats |-> <<>>]
NoExecution == [status |-> "none", exit_code |-> 0, pid |-> None,
                process |-> None]
FailedExecution == [status |-> "failed", exit_code |-> -1, pid |-> None,
                    process |-> None]

(* ------------------------ Sandbox.execute_file ------------------------- *)
\* sandbox.py:84-91, entry and static analysis
StaticAnalysis ==
    /\ pc = "ready"
    /\ scans < scan_limit
    /\ scans' = scans + 1
    /\ \E f \in Files, m \in BOOLEAN :
         /\ file' = f
         /\ monitor' = m
         /\ analysis_result' = Analyze(f, system)
    /\ execution_result' = NoExecution
    /\ cleanups' = 0
    /\ errors' = {}
    /\ UNCHANGED scan_limit
    /\ pc' = "prepare"
    /\ UNCHANGED <<envVars, session, replayed, ctorVars, backendVars, monVars, outVars, security_level,
                   isolation_env, sandbox_dir>>

\* mutant: a missing source file does not stop the scan
PrepareFileUnchecked ==
    /\ pc = "prepare"
    /\ sandbox_dir' = TRUE
    /\ pc' = "elevate"
    /\ file' = NoFile
    /\ UNCHANGED <<envVars, histVars, ctorVars, backendVars, monVars, outVars,
                   scans, monitor, analysis_result, execution_result,
                   scan_limit, security_level, isolation_env>>

\* sandbox.py:94, _prepare_file: makedirs of <sandbox_dir>/files, then the
\* copy, which raises for a missing or unreadable source or an I/O error
PrepareFile ==
    /\ pc = "prepare"
    /\ sandbox_dir' = TRUE
    /\ \E ioOk \in BOOLEAN :
         LET copied == file.exists /\ file.readable /\ ioOk
         IN /\ pc' = IF copied THEN "elevate" ELSE "scan_raised"
            /\ errors' = IF copied THEN errors ELSE errors \cup {"prepare"}
    /\ file' = NoFile
    /\ UNCHANGED <<envVars, cleanups, session, replayed, ctorVars, backendVars, monVars, outVars, scans,
                   monitor, analysis_result, execution_result, scan_limit,
                   security_level, isolation_env>>

\* the fixed high-risk threshold, sandbox.py:97
HighRiskThreshold == 20

\* mutant: a score at or under the threshold puts the level back to low
ElevateSecurityReset ==
    /\ pc = "elevate"
    /\ security_level' = IF analysis_result.threat_level > HighRiskThreshold
                         THEN "high" ELSE "low"
    /\ pc' = "execute"
    /\ UNCHANGED <<envVars, histVars, ctorVars, scanVars, backendVars,
                   monVars, outVars, isolation_env, sandbox_dir>>

\* sandbox.py:96-98
ElevateSecurity ==
    /\ pc = "elevate"
    /\ security_level' = IF analysis_result.threat_level > HighRiskThreshold
                         THEN "high" ELSE security_level
    /\ pc' = "execute"
    /\ UNCHANGED <<envVars, histVars, ctorVars, scanVars, backendVars, monVars, outVars, isolation_env,
                   sandbox_dir>>

(* -------------- isolation execute and the platform handlers ------------ *)
ExitCodes == {0, 1, -1}

\* no result came back from the backend (the call raised or was not made)
NoExit == -2

\* an entry of the log of backend calls
Call(op, handle, level) ==
    [op |-> op, handle |-> handle, level |-> level, scan |-> scans]

\* which handlers define which operations (platforms/windows.py,
\* platforms/linux.py): the Linux handlers define neither
\* execute_in_container, remove_container nor execute_isolated
HasExecuteInContainer(sys) == sys = "windows"
HasRemoveContainer(sys) == sys = "windows"
HasExecuteIsolated(sys) == sys = "windows"

\* mutant: execute_file goes from the execution straight to its cleanup
NextAfterExecuteSkip(res) == "cleanup"

\* mutant: the monitor is attached whenever the execution gave a pid
NextAfterExecuteAlways(res) ==
    IF res.pid # None THEN "start_monitor" ELSE "dynamic"

\* the branch of execute_file that wraps the call, sandbox.py:101-105
NextAfterExecute(res) ==
    IF method = "container" THEN "dynamic"
    ELSE IF monitor /\ res.pid # None THEN "start_monitor"
    ELSE "dynamic"

\* ContainerIsolation.execute under _execute_in_container
\* (isolation.py:88-91, 50-75; sandbox.py:39-55): setup runs only while the
\* environment holds no container id; create_container returns an id or
\* returns None, or the setup raises; execute_in_container is then called
\* with whatever id the environment holds, and raises when that is None
ExecuteContainerEnv ==
    /\ pc = "execute"
    /\ isolation_env.kind = "container"
    /\ \E created \in {"id", "none", "raise", "have"}, code \in ExitCodes :
         /\ (created = "have") <=> (isolation_env.container_id # None)
         /\ LET cid == IF created = "id" THEN Len(containers) + 1
                       ELSE isolation_env.container_id
                createCall ==
                    IF created \in {"id", "none"}
                    THEN <<Call("create_container", cid,
                                isolation_env.security_level)>>
                    ELSE <<>>
                called == created # "raise" /\ HasExecuteInContainer(system)
                runs == called /\ cid # None
            IN
            /\ containers' = IF created = "id"
                             THEN Append(containers, "live") ELSE containers
            /\ isolation_env' = [isolation_env EXCEPT !.container_id = cid]
            /\ calls' = calls \o createCall \o
                 (IF called
                  THEN <<Call("execute_in_container", cid,
                              isolation_env.security_level)>>
                  ELSE <<>>)
            /\ errors' = errors
                 \cup (IF created \in {"none", "raise"}
                       THEN {"create"} ELSE {})
                 \cup (IF created \in {"id", "have"} /\ ~called
                       THEN {"execute"} ELSE {})
            /\ IF runs
               THEN /\ execution_result' =
                      [status |-> "completed", exit_code |-> code,
                       pid |-> None, process |-> None]
                    /\ backend_exit' = code
               ELSE /\ code = 0
                    /\ execution_result' = FailedExecution
                    /\ backend_exit' = NoExit
    /\ pc' = NextAfterExecute(execution_result')
    /\ monitor_results' = "empty"
    /\ UNCHANGED <<envVars, cleanups, session, replayed, ctorVars, monVars,
                   dynamic_analysis, report, scans, file, monitor,
                   analysis_result, scan_limit, procs, security_level,
                   sandbox_dir>>

\* ProcessIsolation.execute under _execute_in_container (the fallback
\* environment) or _execute_in_process (isolation.py:130-132;
\* sandbox.py:39-73; windows.py:97-131, 155-183)
ExecuteProcessEnv ==
    /\ pc = "execute"
    /\ isolation_env.kind = "process"
    /\ \E outcome \in {"exited", "running", "error", "missing"},
          code \in ExitCodes :
         /\ (outcome = "missing") <=> ~HasExecuteIsolated(system)
         \* windows.py:121-128, 176-180: the return code of the process that
         \* ran, 0 for the Windows Sandbox launch, -1 for a failed launch
         /\ (outcome = "running") => code = 0
         /\ (outcome = "error") => code = -1
         /\ (outcome = "missing") => code = 0
         /\ backend_exit' = IF outcome = "missing" THEN NoExit ELSE code
         \* the Windows Sandbox path leaves the process running
         /\ (outcome = "running") => isolation_env.security_level # "low"
         /\ LET spawned == outcome \in {"exited", "running"}
                h == IF spawned THEN Len(procs) + 1 ELSE None
            IN
            /\ procs' = IF spawned THEN Append(procs, outcome) ELSE procs
            /\ calls' = IF outcome = "missing" THEN calls
                        ELSE Append(calls,
                               Call("execute_isolated", h, isolation_env.security_level))
            /\ isolation_env' =
                 IF outcome = "missing" THEN isolation_env
                 ELSE [isolation_env EXCEPT !.process = h]
            /\ execution_result' =
                 IF outcome = "missing" \/ method = "container"
                 THEN FailedExecution
                 ELSE [status |-> "completed", exit_code |-> 0,
                       pid |-> h, process |-> h]
            /\ errors' =
                 IF outcome \in {"missing", "error"} \/ method = "container"
                 THEN errors \cup {"execute"} ELSE errors
    /\ pc' = NextAfterExecute(execution_result')
    /\ monitor_results' = "empty"
    /\ UNCHANGED <<envVars, cleanups, session, replayed, ctorVars, monVars,
                   dynamic_analysis, report, scans, file, monitor,
                   analysis_result, scan_limit,
                   containers, security_level, sandbox_dir>>

(* ------------------ monitoring under execute_file --------------------- *)
\* ProcessMonitor.start_monitoring, monitor.py:42-63 (sandbox.py:108): the
\* thread is started only for a process found running
StartMonitoring ==
    /\ pc = "start_monitor"
    /\ mon_pid' = execution_result.pid
    /\ IF procs[execution_result.pid] = "running"
       THEN /\ monitoring' = TRUE
            /\ mpc' = "entry"
            /\ ticks' = 0
            /\ session' = scans
       ELSE UNCHANGED <<monitoring, mpc, ticks, session>>
    /\ pc' = "wait"
    /\ UNCHANGED <<envVars, cleanups, replayed, errors, ctorVars, scanVars,
                   backendVars, outVars, monitoring_data, saved_score, threat_score, join_outcome,
                   security_level, isolation_env, sandbox_dir>>

\* sandbox.py:109-111, process.wait returns because the process has exited
WaitProcess ==
    /\ pc = "wait"
    /\ procs[execution_result.process] = "exited"
    /\ pc' = "stop_flag"
    /\ UNCHANGED <<envVars, histVars, ctorVars, scanVars, backendVars, monVars, outVars,
                   security_level, isolation_env, sandbox_dir>>

\* sandbox.py:112-113 and 75-82, the wait times out and _terminate_execution
\* sends the termination request
WaitTimeout ==
    /\ pc = "wait"
    /\ procs[execution_result.process] = "running"
    /\ calls' = Append(calls,
                 Call("terminate", execution_result.process, "none"))
    /\ errors' = errors \cup {"timeout"}
    /\ pc' = "stop_flag"
    /\ UNCHANGED <<envVars, cleanups, session, replayed, ctorVars, scanVars, monVars, outVars, procs,
                   containers, security_level, isolation_env, sandbox_dir>>

\* the target process ends (by itself or after a termination request)
ProcessExits ==
    /\ \E h \in 1..Len(procs) :
         /\ procs[h] = "running"
         /\ procs' = [procs EXCEPT ![h] = "exited"]
    /\ UNCHANGED <<envVars, histVars, ctorVars, scanVars, monVars, outVars, containers,
                   calls, security_level, pc, isolation_env, sandbox_dir>>

\* mutant: stop_monitoring leaves the running flag set
StopKeepFlag ==
    /\ pc = "stop_flag"
    /\ pc' = "stop_join"
    /\ UNCHANGED <<envVars, histVars, ctorVars, scanVars, backendVars,
                   monVars, outVars, security_level, isolation_env,
                   sandbox_dir>>

\* stop_monitoring, monitor.py:66
StopClearFlag ==
    /\ pc = "stop_flag"
    /\ monitoring' = FALSE
    /\ pc' = "stop_join"
    /\ UNCHANGED <<envVars, histVars, ctorVars, scanVars, backendVars, outVars, mpc,
                   monitoring_data, saved_score, threat_score, mon_pid, ticks,
                   join_outcome, security_level, isolation_env, sandbox_dir>>

\* mutant: the join has no timeout and returns only when the thread has ended
StopJoinUnbounded ==
    /\ pc = "stop_join"
    /\ \/ mpc = "none" /\ join_outcome' = "no_thread"
       \/ mpc = "done" /\ join_outcome' = "joined"
    /\ pc' = "stop_persist"
    /\ UNCHANGED <<envVars, histVars, ctorVars, scanVars, backendVars, outVars,
                   monitoring, mpc, monitoring_data, saved_score,
                   threat_score, mon_pid, ticks, security_level,
                   isolation_env, sandbox_dir>>

\* stop_monitoring, monitor.py:67-68: join(timeout=5) returns when the thread
\* has ended, or after five seconds whatever the thread does
StopJoin ==
    /\ pc = "stop_join"
    /\ \/ mpc = "none" /\ join_outcome' = "no_thread"
       \/ mpc = "done" /\ join_outcome' = "joined"
       \/ mpc \notin {"none", "done"} /\ join_outcome' = "timeout"
    /\ pc' = "stop_persist"
    /\ UNCHANGED <<envVars, histVars, ctorVars, scanVars, backendVars, outVars,
                   monitoring, mpc, monitoring_data, saved_score,
                   threat_score, mon_pid, ticks, security_level,
                   isolation_env, sandbox_dir>>

\* stop_monitoring, monitor.py:70-73: the score is stored in the dict and the
\* dict is written to the session log (the write can fail)
StopPersist ==
    /\ pc = "stop_persist"
    /\ saved_score' = threat_score
    /\ \E ioOk \in BOOLEAN :
         /\ pc' = IF ioOk THEN "stop_rename" ELSE "scan_raised"
         /\ errors' = IF ioOk THEN errors ELSE errors \cup {"persist"}
    /\ UNCHANGED <<envVars, cleanups, session, replayed, ctorVars, scanVars, backendVars, outVars,
                   monitoring, mpc, monitoring_data, threat_score, mon_pid,
                   ticks, join_outcome, security_level, isolation_env,
                   sandbox_dir>>

\* the three pops of stop_monitoring, monitor.py:78-80
RenameKeys(d) ==
    [k \in ((DOMAIN d) \ {"file_accesses", "network_connections",
                          "registry_activities"})
           \cup {"file_operations", "network_activity", "registry_operations"}
     |-> CASE k = "file_operations" -> GetList(d, "file_accesses")
           [] k = "network_activity" -> GetList(d, "network_connections")
           [] k = "registry_operations" -> GetList(d, "registry_activities")
           [] OTHER -> d[k]]

\* stop_monitoring, monitor.py:77-86 and sandbox.py:116
StopRename ==
    /\ pc = "stop_rename"
    /\ monitoring_data' = RenameKeys(monitoring_data)
    /\ monitor_results' = "alias"
    /\ pc' = "dynamic"
    /\ UNCHANGED <<envVars, histVars, ctorVars, scanVars, backendVars, monitoring, mpc,
                   saved_score, threat_score, mon_pid, ticks, join_outcome,
                   dynamic_analysis, report, backend_exit, security_level,
                   isolation_env,
                   sandbox_dir>>

\* stop_monitoring has not been called a second time
NoStop == [records |-> <<>>, score |-> -1]

\* stop_monitoring called once more on the monitor it has just returned
\* from, monitor.py:65-86: the flag is cleared again, the join returns at
\* once or times out again, the score is stored and the dict is written
\* to the session log again, and the three keys are popped again, each
\* with the default [] now that the first call has renamed it
StopMonitoringAgain ==
    /\ pc = "dynamic"
    /\ monitor_results = "alias"
    /\ first_stop' = [records |-> monitoring_data, score |-> saved_score]
    /\ join_outcome' = IF mpc = "none" THEN "no_thread"
                       ELSE IF mpc = "done" THEN "joined" ELSE "timeout"
    /\ saved_score' = threat_score
    /\ \E ioOk \in BOOLEAN :
         IF ioOk
         THEN /\ monitoring_data' = RenameKeys(monitoring_data)
              /\ pc' = "stopped_twice"
              /\ UNCHANGED errors
         ELSE /\ pc' = "scan_raised"
              /\ errors' = errors \cup {"persist"}
              /\ UNCHANGED monitoring_data
    /\ UNCHANGED <<system, containerAvail, processAvail, method, target,
                   detVars, exit_status, cleanups, session, replayed,
                   ctorVars, scanVars, backendVars, outVars, monitoring,
                   mpc, threat_score, mon_pid, ticks, security_level,
                   isolation_env, sandbox_dir>>

(* ------------------------ the monitoring thread ------------------------ *)
\* enumerations a process-inspection call may return
MaxOpen == 1

SeqsUpTo(S, n) == UNION {[1..k -> S] : k \in 0..n}

\* _monitor_process, monitor.py:89-94: the thread looks its process up
MonitorEntry ==
    /\ mpc = "entry"
    /\ \/ /\ procs[mon_pid] = "exited"
          /\ monitoring' = FALSE
          /\ mpc' = "done"
       \/ /\ mpc' = "check"
          /\ UNCHANGED monitoring
    /\ UNCHANGED <<envVars, histVars, ctorVars, scanVars, backendVars, outVars,
                   monitoring_data, saved_score, threat_score, mon_pid, ticks,
                   join_outcome, security_level, pc, isolation_env,
                   sandbox_dir>>

\* mutant: the loop tests the process only, never the running flag
MonitorCheckIgnoringFlag ==
    /\ mpc = "check"
    /\ IF procs[mon_pid] = "exited"
       THEN mpc' = "done"
       ELSE /\ ticks < MaxTicks
            /\ mpc' = "files"
    /\ UNCHANGED <<envVars, histVars, ctorVars, scanVars, backendVars, outVars,
                   monitoring, monitoring_data, saved_score, threat_score,
                   mon_pid, ticks, join_outcome, security_level, pc,
                   isolation_env, sandbox_dir>>

\* _monitor_process, monitor.py:96-100: the loop test and the liveness test
MonitorCheck ==
    /\ mpc = "check"
    /\ IF ~monitoring \/ procs[mon_pid] = "exited"
       THEN mpc' = "done"
       ELSE /\ ticks < MaxTicks
            /\ mpc' = "files"
    /\ UNCHANGED <<envVars, histVars, ctorVars, scanVars, backendVars, outVars,
                   monitoring, monitoring_data, saved_score, threat_score,
                   mon_pid, ticks, join_outcome, security_level, pc,
                   isolation_env, sandbox_dir>>

\* the deduplication key of an activity record
KeyOf(rec) ==
    IF "path" \in DOMAIN rec THEN rec.path
    ELSE IF "remote" \in DOMAIN rec THEN rec.remote
    ELSE rec.dll

\* the enumeration l reports a key that recs holds already
Recorded(l, recs) ==
    \E i \in 1..Len(l), j \in 1..Len(recs) : KeyOf(recs[j]) = l[i]

\* the _monitor_* method that keeps the list `key`
Inspect(key, l, recs, score, now) ==
    CASE key = "file_accesses" -> FileActivity(l, recs, score, now)
      [] key = "network_connections" -> NetworkActivity(l, recs, score, now)
      [] OTHER -> RegistryActivity(l, recs, score, now)

\* one sampling step, on the list `key`: the inspection call returns an
\* enumeration, or it raises (the process vanished, access was denied) and
\* the `except Exception: pass` of the _monitor_* method swallows the error
\* (monitor.py:127-128, 143-144, 159-160); a key the dict no longer has
\* raises in the same try block.  Either way the loop goes on to the step
\* that follows.
Sample(key, lists, nextpc) ==
    /\ \/ \E l \in lists :
            /\ IF key \in DOMAIN monitoring_data
               THEN LET r == Inspect(key, l, monitoring_data[key],
                                     threat_score, <<scans, ticks + 1>>)
                    IN /\ monitoring_data' =
                            [monitoring_data EXCEPT ![key] = r.recs]
                       /\ threat_score' = r.score
                       /\ replayed' =
                            (replayed \/ Recorded(l, monitoring_data[key]))
               ELSE UNCHANGED <<monitoring_data, threat_score, replayed>>
            /\ UNCHANGED errors
       \/ /\ errors' = errors \cup {"inspect"}
          /\ UNCHANGED <<monitoring_data, threat_score, replayed>>
    /\ mpc' = nextpc
    /\ UNCHANGED <<envVars, cleanups, session, ctorVars, scanVars,
                   backendVars, outVars, monitoring, saved_score, mon_pid,
                   ticks, join_outcome, security_level, pc, isolation_env,
                   sandbox_dir>>

\* monitor.py:102
MonitorFiles ==
    /\ mpc = "files"
    /\ Sample("file_accesses", SeqsUpTo(target.paths, MaxOpen),
              "network")

\* monitor.py:103-105: the registry step runs on Windows only
MonitorNetwork ==
    /\ mpc = "network"
    /\ Sample("network_connections", SeqsUpTo(target.remotes, MaxOpen),
              IF system = "windows" THEN "registry" ELSE "sleep")

\* monitor.py:105
MonitorRegistry ==
    /\ mpc = "registry"
    /\ Sample("registry_activities", SeqsUpTo(target.dlls, MaxOpen),
              "sleep")

\* monitor.py:107
MonitorSleep ==
    /\ mpc = "sleep"
    /\ ticks' = ticks + 1
    /\ mpc' = "check"
    /\ UNCHANGED <<envVars, histVars, ctorVars, scanVars, backendVars, outVars,
                   monitoring, monitoring_data, saved_score, threat_score,
                   mon_pid, join_outcome, security_level, pc, isolation_env,
                   sandbox_dir>>

(* ------------------- analysis, report and cleanup ---------------------- *)
\* the dict execute_file hands to analyze_report: {} or the monitor's dict
MonitorResults ==
    IF monitor_results = "alias" THEN monitoring_data ELSE <<>>

\* the dict stop_monitoring returns: the record lists with the score the
\* monitor stored under "threat_score", monitor.py:70 and 86
WithScore(d, score) ==
    [k \in (DOMAIN d) \cup {"threat_score"} |->
        IF k = "threat_score" THEN score ELSE d[k]]

\* mutant: the score the monitor stored is added to the dynamic score
DynamicAnalysisScored ==
    /\ pc = "dynamic"
    /\ dynamic_analysis' =
         [AnalyzeReport(MonitorResults, system) EXCEPT
            !.threat_score = IF monitor_results = "alias"
                             THEN Min(@ + saved_score, 100) ELSE @]
    /\ pc' = "report"
    /\ UNCHANGED <<envVars, histVars, ctorVars, scanVars, backendVars, monVars,
                   monitor_results, report, backend_exit, security_level,
                   isolation_env,
                   sandbox_dir>>

\* sandbox.py:123-126
DynamicAnalysis ==
    /\ pc = "dynamic"
    /\ dynamic_analysis' = AnalyzeReport(MonitorResults, system)
    /\ pc' = "report"
    /\ UNCHANGED <<envVars, histVars, ctorVars, scanVars, backendVars, monVars,
                   monitor_results, report, backend_exit, security_level,
                   isolation_env,
                   sandbox_dir>>

\* sandbox.py:128-153
BuildReport ==
    /\ pc = "report"
    /\ report' =
         [scan |-> scans,
          status |-> execution_result.status,
          exit_code |-> execution_result.exit_code,
          threat_level |-> CombinedScore(analysis_result.threat_level,
                                         dynamic_analysis.threat_score),
          threats |-> analysis_result.threats \o dynamic_analysis.threats,
          file_operations |-> GetList(MonitorResults, "file_operations"),
          network_activity |-> GetList(MonitorResults, "network_activity"),
          registry_operations |->
              GetList(MonitorResults, "registry_operations")]
    /\ pc' = "cleanup"
    /\ UNCHANGED <<envVars, histVars, ctorVars, scanVars, backendVars, monVars,
                   monitor_results, dynamic_analysis, backend_exit,
                   security_level, isolation_env, sandbox_dir>>

\* ContainerIsolation.cleanup, isolation.py:77-86 (remove_container is
\* windows.py:70-77 and reports a failing removal by returning False; the
\* Linux handler has none, the call raises and the id is kept)
ContainerCleanup ==
    /\ IF isolation_env.container_id # None /\ HasRemoveContainer(system)
       THEN \E removed \in BOOLEAN :
              /\ calls' = Append(calls,
                      Call("remove_container", isolation_env.container_id,
                           "none"))
              /\ containers' =
                   IF removed
                   THEN [containers EXCEPT
                           ![isolation_env.container_id] = "removed"]
                   ELSE containers
              /\ isolation_env' =
                   [isolation_env EXCEPT !.container_id = None]
              /\ errors' = IF removed THEN errors
                           ELSE errors \cup {"cleanup"}
       ELSE /\ errors' = IF isolation_env.container_id # None
                         THEN errors \cup {"cleanup"} ELSE errors
            /\ UNCHANGED <<calls, containers, isolation_env>>
    /\ UNCHANGED procs

\* mutant: the process handle is kept after it was terminated
ProcessCleanupKeepHandle ==
    /\ IF isolation_env.process # None
       THEN /\ calls' = Append(calls,
                    Call("terminate_process", isolation_env.process,
                         "none"))
            /\ procs' = [procs EXCEPT ![isolation_env.process] = "exited"]
            /\ UNCHANGED <<isolation_env, errors>>
       ELSE UNCHANGED <<calls, procs, isolation_env, errors>>
    /\ UNCHANGED containers

\* ProcessIsolation.cleanup, isolation.py:120-128, with terminate_process
\* (windows.py:133-140): terminate, wait, then kill; when the kill raises
\* the handle is kept
ProcessCleanup ==
    /\ IF isolation_env.process # None
       THEN \E killed \in BOOLEAN :
              /\ procs[isolation_env.process] = "exited" => killed
              /\ calls' = Append(calls,
                      Call("terminate_process", isolation_env.process,
                           "none"))
              /\ procs' = IF killed
                          THEN [procs EXCEPT
                                  ![isolation_env.process] = "exited"]
                          ELSE procs
              /\ isolation_env' =
                   IF killed THEN [isolation_env EXCEPT !.process = None]
                   ELSE isolation_env
              /\ errors' = IF killed THEN errors
                           ELSE errors \cup {"cleanup"}
       ELSE UNCHANGED <<calls, procs, isolation_env, errors>>
    /\ UNCHANGED containers

\* Sandbox.cleanup, sandbox.py:159-166: a failing rmtree is caught after
\* the isolation teardown was skipped
Cleanup ==
    \E rmOk \in BOOLEAN :
      /\ cleanups' = cleanups + 1
      /\ ~sandbox_dir => rmOk
      /\ IF rmOk
         THEN /\ sandbox_dir' = FALSE
              /\ IF isolation_env.kind = "container"
                 THEN ContainerCleanup ELSE ProcessCleanup
         ELSE /\ errors' = errors \cup {"cleanup"}
              /\ UNCHANGED <<sandbox_dir, isolation_env, backendVars>>

\* mutant: an error met by cleanup is raised to the caller of execute_file
SandboxCleanupRaising ==
    /\ pc = "cleanup"
    /\ Cleanup
    /\ pc' = IF errors' # errors THEN "scan_raised" ELSE "returned"
    /\ UNCHANGED <<envVars, session, replayed, ctorVars, scanVars, monVars,
                   outVars, security_level>>

\* sandbox.py:155-157
SandboxCleanup ==
    /\ pc = "cleanup"
    /\ Cleanup
    /\ pc' = "returned"
    /\ UNCHANGED <<envVars, session, replayed, ctorVars, scanVars, monVars, outVars,
                   security_level>>

\* ScanWorker.run, main_window.py:43-45: the worker cleans up once more and
\* goes on to its next file
WorkerCleanup ==
    /\ pc = "returned"
    /\ Cleanup
    /\ pc' = IF scans < scan_limit THEN "ready" ELSE "finished"
    /\ UNCHANGED <<envVars, session, replayed, ctorVars, scanVars, monVars, outVars,
                   security_level>>

\* nothing built, nothing run, no report
Fresh ==
    /\ exit_status = -1
    /\ backend_exit = NoExit
    /\ first_stop = NoStop
    /\ td_env = "none"
    /\ isolation_env = NoEnv
    /\ sandbox_dir = FALSE
    /\ log_dir = FALSE
    /\ probes = <<>>
    /\ calls = <<>>
    /\ scans = 0
    /\ file = NoFile
    /\ monitor = FALSE
    /\ analysis_result = NoAnalysis
    /\ execution_result = NoExecution
    /\ procs = <<>>
    /\ containers = <<>>
    /\ monitoring = FALSE
    /\ mpc = "none"
    /\ monitoring_data = FreshMonitoringData
    /\ saved_score = -1
    /\ threat_score = 0
    /\ mon_pid = None
    /\ ticks = 0
    /\ join_outcome = "none"
    /\ monitor_results = "empty"
    /\ dynamic_analysis = [threat_score |-> 0, threats |-> <<>>]
    /\ report = NoReport
    /\ cleanups = 0
    /\ session = 0
    /\ replayed = FALSE
    /\ errors = {}

\* the state after the caller's arguments are fixed and before Sandbox() runs
Start ==
    /\ pc = "new"
    /\ Fresh

\* the detector of a Sandbox: the registry as _load_signatures fills it
\* (threat_detector.py:64-95), and no call from outside execute_file
DetectorLoaded ==
    /\ signatures = Signatures
    /\ td_file = [ext |-> ".txt", readable |-> FALSE, content |-> <<>>]
    /\ td_report = <<>>
    /\ td_calls = <<>>

\* one scan, on every platform, method, level and backend availability, of
\* a target that opens at most the password file
Init ==
    /\ system \in Systems
    /\ containerAvail \in BOOLEAN
    \* WindowsProcessHandler.check_isolation_support returns True always
    /\ processAvail \in (IF system = "windows" THEN {TRUE} ELSE BOOLEAN)
    /\ method \in Methods
    /\ security_level \in Levels
    /\ target = [paths |-> {"passwd"}, remotes |-> {}, dlls |-> {}]
    /\ scan_limit = 1
    /\ DetectorLoaded
    /\ Start

\* what the targets of the monitoring runs can do: everything of one
\* activity class, or one thing of each class
MonitorTargets ==
    {[paths |-> PathIds, remotes |-> {}, dlls |-> {}],
     [paths |-> {}, remotes |-> RemoteIds, dlls |-> {}],
     [paths |-> {}, remotes |-> {}, dlls |-> DllIds],
     [paths |-> {"passwd"}, remotes |-> {"c2"}, dlls |-> {"advapi"}]}

\* one scan under process isolation on Windows (the one configuration in
\* which a monitoring session runs)
InitMonitor ==
    /\ system = "windows"
    /\ containerAvail = FALSE
    /\ processAvail = TRUE
    /\ method = "process"
    /\ security_level = "medium"
    /\ target \in MonitorTargets
    /\ scan_limit = 1
    /\ DetectorLoaded
    /\ Start

Next ==
    \/ ThreatDetectorInit
    \/ ProcessMonitorInit
    \/ SandboxGetEnv
    \/ SandboxMakeDir
    \/ StaticAnalysis
    \/ PrepareFile
    \/ ElevateSecurity
    \/ ExecuteContainerEnv
    \/ ExecuteProcessEnv
    \/ StartMonitoring
    \/ WaitProcess
    \/ WaitTimeout
    \/ ProcessExits
    \/ StopClearFlag
    \/ StopJoin
    \/ StopPersist
    \/ StopRename
    \/ MonitorEntry
    \/ MonitorCheck
    \/ MonitorFiles
    \/ MonitorNetwork
    \/ MonitorRegistry
    \/ MonitorSleep
    \/ DynamicAnalysis
    \/ BuildReport
    \/ SandboxCleanup
    \/ WorkerCleanup

Spec == Init /\ [][Next]_vars

\* the steps of a scan under process isolation
NextMonitor ==
    \/ ThreatDetectorInit
    \/ ProcessMonitorInit
    \/ SandboxGetEnv
    \/ SandboxMakeDir
    \/ StaticAnalysis
    \/ PrepareFile
    \/ ElevateSecurity
    \/ ExecuteProcessEnv
    \/ StartMonitoring
    \/ WaitProcess
    \/ WaitTimeout
    \/ ProcessExits
    \/ StopClearFlag
    \/ StopJoin
    \/ StopPersist
    \/ StopRename
    \/ MonitorEntry
    \/ MonitorCheck
    \/ MonitorFiles
    \/ MonitorNetwork
    \/ MonitorRegistry
    \/ MonitorSleep
    \/ DynamicAnalysis
    \/ BuildReport
    \/ SandboxCleanup
    \/ WorkerCleanup

SpecMonitor == InitMonitor /\ [][NextMonitor]_vars

\* a caller that uses the monitor as execute_file does and may call
\* stop_monitoring a second time before it reads the records
NextStopTwice == NextMonitor \/ StopMonitoringAgain

SpecStopTwice == InitMonitor /\ [][NextStopTwice]_vars

\* files one ScanWorker hands to its Sandbox, one after the other
MaxScans == 2

\* ScanWorker.run, main_window.py:31-45: one Sandbox, built for the method
\* and level chosen in the window, scans every file of the list (the
\* targets of these runs show no activity to the monitor)
InitWorker ==
    /\ system \in Systems
    /\ containerAvail \in BOOLEAN
    /\ processAvail \in (IF system = "windows" THEN {TRUE} ELSE BOOLEAN)
    /\ method \in {"container", "process"}
    /\ security_level \in {"low", "medium"}
    /\ target = [paths |-> {}, remotes |-> {}, dlls |-> {}]
    /\ scan_limit = MaxScans
    /\ DetectorLoaded
    /\ Start

SpecWorker == InitWorker /\ [][Next]_vars

\* ScanWorker.run under process isolation on Windows, where the monitor
\* runs: one Sandbox scans MaxScans files whose process opens the
\* password file
InitSequence ==
    /\ system = "windows"
    /\ containerAvail = FALSE
    /\ processAvail = TRUE
    /\ method = "process"
    /\ security_level = "medium"
    /\ target = [paths |-> {"passwd"}, remotes |-> {}, dlls |-> {}]
    /\ scan_limit = MaxScans
    /\ DetectorLoaded
    /\ Start

SpecSequence == InitSequence /\ [][NextMonitor]_vars

\* stop_monitoring runs on the thread that called execute_file: each of
\* its statements is reached once the one before it is over.  Nothing is
\* assumed of the monitoring thread, which may stay in an inspection call
\* for ever.
StopMonitoringRuns ==
    WF_vars(StopClearFlag \/ StopJoin \/ StopPersist \/ StopRename)

SpecMonitorFair == InitMonitor /\ [][NextMonitor]_vars /\ StopMonitoringRuns

\* the monitoring thread is scheduled and its inspection calls return:
\* every statement of _monitor_process, monitor.py:88-113, is reached once
\* the one before it is over
MonitorThreadRuns ==
    WF_vars(MonitorEntry \/ MonitorCheck \/ MonitorFiles \/ MonitorNetwork
              \/ MonitorRegistry \/ MonitorSleep)

SpecMonitorLoopFair ==
    InitMonitor /\ [][NextMonitor]_vars /\ MonitorThreadRuns

(* ------------------------- main(), the CLI ----------------------------- *)
\* the steps of main() leave everything but the exit status and the
\* position alone
MainFrame ==
    UNCHANGED <<system, containerAvail, processAvail, method, target,
                detVars, first_stop, ctorVars, backendVars, monVars, outVars, histVars,
                scans, monitor, analysis_result, execution_result,
                scan_limit, security_level, isolation_env, sandbox_dir>>

\* main.py:67-73: the path given on the command line is tested, a missing
\* file ends the run with 1, otherwise run_sandbox builds the Sandbox
MainCheckFile ==
    /\ pc = "main"
    /\ \E f \in Files :
         /\ file' = f
         /\ IF f.exists
            THEN pc' = "new" /\ UNCHANGED exit_status
            ELSE pc' = "exited" /\ exit_status' = 1
    /\ MainFrame

\* mutant: a report whose score is over the 0.6 mark ends the run with 2
MainReturnByVerdict ==
    /\ pc = "returned"
    /\ exit_status' = IF report.threat_level > 60 THEN 2 ELSE 0
    /\ pc' = "exited"
    /\ UNCHANGED file
    /\ MainFrame

\* main.py:74-111: execute_file returned its report; the report is printed
\* (every value in it is a string, a number or a list of those) and the run
\* ends with 0
MainReturn ==
    /\ pc = "returned"
    /\ exit_status' = 0
    /\ pc' = "exited"
    /\ UNCHANGED file
    /\ MainFrame

\* main.py:113-115: whatever Sandbox() or execute_file raised is printed
\* and the run ends with 1
MainExcept ==
    /\ pc \in {"ctor_raised", "scan_raised"}
    /\ exit_status' = 1
    /\ pc' = "exited"
    /\ UNCHANGED file
    /\ MainFrame

\* one run of `saferun --cli <file>`: argparse admits the two methods and
\* the three levels (main.py:50-55)
InitCli ==
    /\ system \in Systems
    /\ containerAvail \in BOOLEAN
    /\ processAvail \in (IF system = "windows" THEN {TRUE} ELSE BOOLEAN)
    /\ method \in {"container", "process"}
    /\ security_level \in {"low", "medium", "high"}
    /\ target = [paths |-> {"passwd"}, remotes |-> {}, dlls |-> {}]
    /\ scan_limit = 1
    /\ DetectorLoaded
    /\ pc = "main"
    /\ Fresh

NextCli ==
    \/ MainCheckFile
    \/ ThreatDetectorInit
    \/ ProcessMonitorInit
    \/ SandboxGetEnv
    \/ SandboxMakeDir
    \/ StaticAnalysis
    \/ PrepareFile
    \/ ElevateSecurity
    \/ ExecuteContainerEnv
    \/ ExecuteProcessEnv
    \/ StartMonitoring
    \/ WaitProcess
    \/ WaitTimeout
    \/ ProcessExits
    \/ StopClearFlag
    \/ StopJoin
    \/ StopPersist
    \/ StopRename
    \/ MonitorEntry
    \/ MonitorCheck
    \/ MonitorFiles
    \/ MonitorNetwork
    \/ MonitorRegistry
    \/ MonitorSleep
    \/ DynamicAnalysis
    \/ BuildReport
    \/ SandboxCleanup
    \/ MainReturn
    \/ MainExcept

SpecCli == InitCli /\ [][NextCli]_vars

(* ------------- the ThreatDetector called on its own -------------------- *)
\* ThreatLevel.from_string, threat_detector.py:16-24 (str.lower() on the
\* strings of the universe, then the table with its default NONE)
FromString(level_str) ==
    LET l == IF level_str = "Critical" THEN "critical" ELSE level_str
    IN CASE l = "none"     -> "NONE"
         [] l = "low"      -> "LOW"
         [] l = "medium"   -> "MEDIUM"
         [] l = "high"     -> "HIGH"
         [] l = "critical" -> "CRITICAL"
         [] OTHER          -> "NONE"

\* ThreatSignature.from_dict, threat_detector.py:27-48: a severity given as
\* a string goes through from_string
FromDict(data) ==
    [id |-> data.id, name |-> data.name, indicators |-> data.indicators,
     severity |-> FromString(data.severity), category |-> data.category,
     platforms |-> data.platforms]

\* one more signature a registry may have been loaded with, by severity
\* string
SignatureData ==
    {[id |-> "SIG-900", name |-> "Temp File Write",
      indicators |-> <<<<"/tmp/out.txt">>>>, severity |-> sv,
      category |-> "File Access", platforms |-> {"all"}] :
        sv \in {"Critical", "none", "info"}}

\* the registries of the runs: the built-in one, alone or with one more
\* signature
Registries ==
    {Signatures} \cup {Append(Signatures, FromDict(d)) : d \in SignatureData}

\* tokens a file's bytes are made of, and how many of them
Words == {"CreateProcess", "createprocess", "eval", "exec"}
MaxWords == 3

\* the files handed to analyze_file
TdFiles ==
    {[ext |-> e, readable |-> TRUE, content |-> c] :
        e \in {".exe", ".PY", ".txt"}, c \in SeqsUpTo(Words, MaxWords)}
    \cup {[ext |-> e, readable |-> FALSE, content |-> <<>>] :
            e \in {".exe", ".PY", ".txt"}}

\* records of one list of an activity report
MaxRecords == 2

\* the activity reports handed to analyze_report: None or {}, or a dict with
\* the three lists
TdReports ==
    {<<>>}
    \cup {[file_operations |-> f, network_activity |-> n,
           registry_operations |-> r] :
            f \in SeqsUpTo({[timestamp |-> <<0, 0>>, path |-> p] :
                              p \in {"passwd", "tmp"}}, 1),
            n \in SeqsUpTo({[timestamp |-> <<0, 0>>, remote |-> q] :
                              q \in {"c2dom", "web"}}, MaxRecords),
            r \in SeqsUpTo({[timestamp |-> <<0, 0>>, dll |-> "advapi",
                             key |-> "runkey"]}, 1)}

\* what a caller of the detector holds: any file with one report, or any
\* report with one file
TdInputs ==
    {[file |-> f,
      report |-> [file_operations |->
                      <<[timestamp |-> <<0, 0>>, path |-> "passwd"]>>]] :
        f \in TdFiles}
    \cup {[file |-> [ext |-> ".exe", readable |-> TRUE,
                     content |-> <<"CreateProcess">>],
           report |-> r] : r \in TdReports}

\* calls of the detector's entry points in one run
MaxCalls == 2

\* platform.system().lower() on the hosts isolation.py:9-17 accepts: a
\* macOS host reports "darwin".  (isolation.py names handlers for that
\* host which platforms/macos.py does not define, so the scan runs are
\* over Systems only; the detector's platform test is run for all three.)
DetectorHosts == Systems \cup {"darwin"}

\* the name the signature tables use for a host, threat_detector.py:75
PlatformOf(sys) == IF sys = "darwin" THEN "macos" ELSE sys

\* a detector built on its own, ThreatDetector(security_level, "process"),
\* with the inputs its caller holds
InitDetector ==
    /\ system \in DetectorHosts
    /\ containerAvail = FALSE
    /\ processAvail = TRUE
    /\ method = "process"
    /\ security_level = "medium"
    /\ target = [paths |-> {}, remotes |-> {}, dlls |-> {}]
    /\ scan_limit = 0
    /\ signatures \in Registries
    /\ \E i \in TdInputs : td_file = i.file /\ td_report = i.report
    /\ td_calls = <<>>
    /\ Start

\* mutant: analyze_report empties the lists of the dict it was handed
AnalyzeReportCallConsuming ==
    /\ Len(td_calls) < MaxCalls
    /\ td_calls' = Append(td_calls,
                     [op |-> "analyze_report",
                      result |-> AnalyzeReport(td_report, system)])
    /\ td_report' = [k \in DOMAIN td_report |-> <<>>]
    /\ UNCHANGED <<system, containerAvail, processAvail, method, target,
                   exit_status, first_stop, signatures, td_file, ctorVars, scanVars,
                   backendVars, monVars, outVars, histVars, security_level,
                   pc, isolation_env, sandbox_dir>>

\* a call of analyze_file, threat_detector.py:97-146: it assigns locals only
AnalyzeFileCall ==
    /\ Len(td_calls) < MaxCalls
    /\ td_calls' = Append(td_calls,
                     [op |-> "analyze_file",
                      result |-> AnalyzeFile(td_file)])
    /\ UNCHANGED <<system, containerAvail, processAvail, method, target,
                   exit_status, first_stop, signatures, td_file, td_report, ctorVars, scanVars,
                   backendVars, monVars, outVars, histVars, security_level,
                   pc, isolation_env, sandbox_dir>>

\* a call of analyze_report, threat_detector.py:148-190: `report or {}`
\* rebinds a local, and the three lists are concatenated into a new one
AnalyzeReportCall ==
    /\ Len(td_calls) < MaxCalls
    /\ td_calls' = Append(td_calls,
                     [op |-> "analyze_report",
                      result |-> AnalyzeReport(td_report, system)])
    /\ UNCHANGED <<system, containerAvail, processAvail, method, target,
                   exit_status, first_stop, signatures, td_file, td_report, ctorVars, scanVars,
                   backendVars, monVars, outVars, histVars, security_level,
                   pc, isolation_env, sandbox_dir>>

NextDetector ==
    \/ AnalyzeFileCall
    \/ AnalyzeReportCall

SpecDetector == InitDetector /\ [][NextDetector]_vars

(* ------------------------------- claims -------------------------------- *)
ExecOps == {"execute_in_container", "execute_isolated"}

KindOf(op) == IF op = "execute_in_container" THEN "container" ELSE "process"

\* C1: the target is executed only by the kind of environment the Sandbox
\* holds, and that kind's is_available() probe returned true when it was
\* selected; when neither backend is available the construction has failed
\* and no backend execute call is ever made.
C1_NeverUnisolated ==
    /\ \A i \in 1..Len(calls) :
         calls[i].op \in ExecOps =>
           /\ isolation_env.kind = KindOf(calls[i].op)
           /\ \E j \in 1..Len(probes) :
                probes[j] = [kind |-> KindOf(calls[i].op), result |-> TRUE]
    /\ (~containerAvail /\ ~processAvail) =>
           /\ pc \in {"new", "ctor_raised"}
           /\ \A i \in 1..Len(calls) : calls[i].op \notin ExecOps

\* the target was executed by the Process fallback of a container request
C1_Witness ==
    /\ method = "container"
    /\ \E i \in 1..Len(calls) : calls[i].op = "execute_isolated"

\* C2: once get_isolation_environment has been called, its outcome is the
\* one the selection policy names for the method and the availability of
\* the two backends; a process request never probes the Container variant.
C2_SelectionPolicy ==
    LET selected(k) == pc # "ctor_raised" /\ isolation_env.kind = k
                       /\ isolation_env.container_id = None
                       /\ isolation_env.process = None
        failed == pc = "ctor_raised" /\ isolation_env = NoEnv
    IN /\ pc \in {"mkdir", "ready", "ctor_raised"} =>
            CASE method = "container" /\ containerAvail -> selected("container")
              [] method = "container" /\ ~containerAvail /\ processAvail
                   -> selected("process")
              [] method = "process" /\ processAvail -> selected("process")
              [] OTHER -> failed
       /\ method = "process" =>
            \A j \in 1..Len(probes) : probes[j].kind # "container"

\* a container request fell back to the Process variant
C2_Witness ==
    /\ pc = "ready"
    /\ method = "container"
    /\ ~containerAvail
    /\ isolation_env.kind = "process"

\* C3: a container request with neither backend available has failed
\* without a workspace directory, a monitor log directory or a report.
C3_NoSideEffects ==
    (pc = "ctor_raised" /\ method = "container"
       /\ ~containerAvail /\ ~processAvail) =>
        /\ ~sandbox_dir
        /\ ~log_dir
        /\ report = NoReport
        /\ calls = <<>>

\* the construction of such a request has failed
C3_Witness ==
    /\ pc = "ctor_raised"
    /\ method = "container"
    /\ ~containerAvail
    /\ ~processAvail

\* C4: for a missing target file static analysis returns score 0 with the
\* error marker, and the scan ends raised in file preparation without any
\* backend call of that scan.
C4_MissingFile ==
    /\ (pc = "prepare" /\ ~file.exists) =>
         /\ analysis_result.error = "File not found"
         /\ analysis_result.threat_level = 0
    /\ (scans > 0 /\ analysis_result.error = "File not found") =>
         /\ pc \in {"prepare", "scan_raised"}
         /\ \A i \in 1..Len(calls) : calls[i].scan # scans
         /\ isolation_env.container_id = None
         /\ isolation_env.process = None

\* the scan of a missing file has ended
C4_Witness ==
    /\ pc = "scan_raised"
    /\ analysis_result.error = "File not found"

\* C5: whenever execute_file has handed control back to its caller, by
\* returning or by raising, Sandbox.cleanup has run in that scan.
C5_CleanupOnEveryExit ==
    pc \in {"returned", "scan_raised"} => cleanups >= 1

\* C6: when a scan started the monitoring thread, dynamic analysis and the
\* report come after stop_monitoring cleared the running flag and its join
\* ended (the thread joined, or the join timed out).
C6_StopBeforeAnalysis ==
    (session = scans /\ session > 0 /\ pc \in {"dynamic", "report"}) =>
        /\ ~monitoring
        /\ monitor_results = "alias"
        /\ join_outcome \in {"joined", "timeout"}
        /\ join_outcome = "joined" => mpc = "done"

\* dynamic analysis is about to run after a join that timed out, the
\* thread still alive
C6_Witness ==
    /\ pc = "dynamic"
    /\ session = scans
    /\ session > 0
    /\ join_outcome = "timeout"
    /\ mpc # "done"

\* C10: when the static score exceeds the threshold, every backend call
\* that creates the environment of the scan or executes the file in it is
\* made at level high.
C10_EscalatedIsolation ==
    analysis_result.threat_level > HighRiskThreshold =>
        \A i \in 1..Len(calls) :
            (calls[i].scan = scans
               /\ calls[i].op \in ExecOps \cup {"create_container"})
            => calls[i].level = "high"

\* the list a record belongs to in the dict analyze_report reads
ListKey(e) ==
    IF "path" \in DOMAIN e THEN "file_operations"
    ELSE IF "remote" \in DOMAIN e THEN "network_activity"
    ELSE "registry_operations"

\* the activity report rep with the record e added
AddRecord(rep, e) ==
    [k \in (DOMAIN rep) \cup {ListKey(e)} |->
        IF k = ListKey(e) THEN Append(GetList(rep, k), e) ELSE rep[k]]

\* one more activity record of any class
ExtraRecords ==
    {[timestamp |-> <<0, 0>>, path |-> p] : p \in PathIds}
    \cup {[timestamp |-> <<0, 0>>, remote |-> r] : r \in RemoteIds}
    \cup {[timestamp |-> <<0, 0>>, dll |-> d, key |-> "runkey"] :
            d \in DllIds}

\* every finding of the list a is in the list b
FindingsWithin(a, b) ==
    {a[i] : i \in 1..Len(a)} \subseteq {b[i] : i \in 1..Len(b)}

\* execute_file has just built the report of this scan (sandbox.py:134-153)
ReportBuilt == pc = "cleanup" /\ report.scan = scans

\* what analyze returns for the files it can read, on each platform
StaticOutcomes ==
    {[sys |-> sy, result |-> Analyze(f, sy)] :
        f \in {g \in Files : g.exists /\ g.readable}, sy \in Systems}

\* C7: the combined score of a report is within [0.0, 1.0], and neither one
\* more activity record in the activity report nor a file with further
\* static findings gives a smaller combined score.
C7_ScoreBoundedMonotone ==
    ReportBuilt =>
      LET s == analysis_result.threat_level
          d == dynamic_analysis.threat_score
      IN /\ report.threat_level \in 0..100
         /\ \A e \in ExtraRecords :
              CombinedScore(s,
                  AnalyzeReport(AddRecord(MonitorResults, e),
                                system).threat_score)
                >= report.threat_level
         /\ \A o \in StaticOutcomes :
              (o.sys = system
                 /\ FindingsWithin(analysis_result.threats,
                                   o.result.threats))
              => CombinedScore(o.result.threat_level, d)
                   >= report.threat_level

\* a report whose sum of static and dynamic score went over the cap
C7_Witness ==
    /\ ReportBuilt
    /\ analysis_result.threat_level + dynamic_analysis.threat_score > 100
    /\ report.threat_level = 100

\* the orders in which the records of a list can be presented
Orders(list) ==
    {[i \in 1..Len(list) |-> list[f[i]]] :
        f \in Permutations(1..Len(list))}

\* the activity report rep with the records of each list in any order
Reorderings(rep) ==
    {r \in [DOMAIN rep -> UNION {Orders(rep[k]) : k \in DOMAIN rep}] :
        \A k \in DOMAIN rep : r[k] \in Orders(rep[k])}

\* C8: the combined score of a report is min(static + dynamic, 1.0), the
\* same with the two scores exchanged and the same for every order of the
\* activity records in their lists.
C8_ScoreOrderIndependent ==
    ReportBuilt =>
      LET s == analysis_result.threat_level
          d == dynamic_analysis.threat_score
      IN /\ report.threat_level = (IF s + d < 100 THEN s + d ELSE 100)
         /\ CombinedScore(d, s) = report.threat_level
         /\ \A r \in Reorderings(MonitorResults) :
              AnalyzeReport(r, system).threat_score = d

\* a report over two records of one list, only one of which matches a
\* signature, with a static score
C8_Witness ==
    /\ ReportBuilt
    /\ analysis_result.threat_level > 0
    /\ dynamic_analysis.threat_score = 40
    /\ Len(report.file_operations) = 2

\* no two records of a list share their deduplication key
NoDuplicateKeys ==
    \A k \in DOMAIN monitoring_data :
        \A i, j \in 1..Len(monitoring_data[k]) :
            KeyOf(monitoring_data[k][i]) = KeyOf(monitoring_data[k][j])
              => i = j

IsPrefix(a, b) == Len(a) <= Len(b) /\ SubSeq(b, 1, Len(a)) = a

\* the name stop_monitoring gives a list
Renamed(k) ==
    CASE k = "file_accesses" -> "file_operations"
      [] k = "network_connections" -> "network_activity"
      [] k = "registry_activities" -> "registry_operations"
      [] OTHER -> k

\* a step keeps every record, with its timestamp, where it was in its list
RecordsKept ==
    \A k \in DOMAIN monitoring_data :
        IF k \in DOMAIN monitoring_data'
        THEN IsPrefix(monitoring_data[k], monitoring_data'[k])
        ELSE monitoring_data'[Renamed(k)] = monitoring_data[k]

\* C9: in a monitoring session no two records of a class share their
\* deduplication key after any step, and no step changes or removes a
\* record already made: a key reported again adds nothing.
C9_Deduplication == [][NoDuplicateKeys' /\ RecordsKept]_vars

\* a sample reported a key that was recorded already, and it is still
\* recorded once
C9_Witness ==
    /\ replayed
    /\ \E k \in DOMAIN monitoring_data : Len(monitoring_data[k]) = 1

\* how strict a level is; an unrecognized level is run as medium
Strictness(lvl) ==
    CASE NormalizeLevel(lvl) = "low" -> 1
      [] NormalizeLevel(lvl) = "medium" -> 2
      [] OTHER -> 3

\* C11: over the scans of one Sandbox no step makes its security level, or
\* the level of its isolation environment once built, less strict, and
\* the escalation step of a scan whose static score is at most the
\* threshold leaves the level as it is.
C11_LevelNeverLowered ==
    [][/\ Strictness(security_level') >= Strictness(security_level)
       /\ (isolation_env.kind # "none" /\ isolation_env'.kind # "none")
            => Strictness(isolation_env'.security_level)
                 >= Strictness(isolation_env.security_level)
       /\ (pc = "elevate"
             /\ analysis_result.threat_level <= HighRiskThreshold)
            => security_level' = security_level]_vars

\* the second scan of a Sandbox that was asked for level low and was
\* escalated by its first scan: its file scores under the threshold and
\* its escalation step is over
C11_Witness ==
    /\ scans = 2
    /\ pc = "execute"
    /\ analysis_result.threat_level <= HighRiskThreshold
    /\ security_level = "high"
    /\ isolation_env.security_level = "low"

\* the release calls of the backends
ReleaseOps == {"remove_container", "terminate_process"}

\* C12: a Sandbox.cleanup that follows one which ended without error (the
\* worker's call after execute_file returned) finds no handle in the
\* isolation environment, makes no backend call, meets no error and leaves
\* the report as it was returned.
C12_CleanupIdempotent ==
    [][(pc = "returned" /\ pc' # pc /\ "cleanup" \notin errors)
         => /\ isolation_env.container_id = None
            /\ isolation_env.process = None
            /\ calls' = calls
            /\ errors' = errors
            /\ report' = report
            /\ isolation_env' = isolation_env
            /\ pc' \in {"ready", "finished"}]_vars

\* the worker's second cleanup is over, after a first one that released a
\* handle of this scan without error
C12_Witness ==
    /\ pc = "finished"
    /\ cleanups = 2
    /\ "cleanup" \notin errors
    /\ report.scan = scans
    /\ \E i \in 1..Len(calls) :
         calls[i].scan = scans /\ calls[i].op \in ReleaseOps

\* C13: Sandbox.cleanup returns normally whatever fails in it (the removal
\* of the workspace, the removal of the container, the termination of the
\* process): execute_file goes on to return, the worker's own call goes on
\* to the next file, and the report built before cleanup is returned as it
\* was built.
C13_CleanupNeverRaises ==
    [][(pc \in {"cleanup", "returned"} /\ pc' # pc)
         => /\ pc' \in {"returned", "ready", "finished"}
            /\ report' = report
            /\ report.scan = scans]_vars

\* execute_file has returned the report of a completed run although its
\* cleanup met an error
C13_Witness ==
    /\ pc = "returned"
    /\ "cleanup" \in errors
    /\ report.scan = scans
    /\ report.status = "completed"

\* the errors that make a scan a failed one: the copy into the workspace,
\* the creation of the container, the execution in the environment
ScanFailures == {"prepare", "create", "execute"}

\* C14: a scan that met a failure of file preparation or of execution has,
\* when control is back with the caller, returned a report of this scan
\* with status failed, exit code -1 and the static findings; it has not
\* raised.
C14_FailedScanReturnsReport ==
    (pc \in {"returned", "scan_raised"} /\ errors \cap ScanFailures # {})
      => /\ pc = "returned"
         /\ report.scan = scans
         /\ report.status = "failed"
         /\ report.exit_code = -1
         /\ IsPrefix(analysis_result.threats, report.threats)

\* C15: when control is back with the caller of a scan, the scan has
\* raised if the creation of its container failed, and it has raised only
\* then: with no creation failure (a timeout, a monitor, analysis or
\* cleanup error at most) it has returned a report of this scan.
C15_OnlyCreationPropagates ==
    pc \in {"returned", "scan_raised"}
      => /\ "create" \in errors => pc = "scan_raised"
         /\ "create" \notin errors
              => (pc = "returned" /\ report.scan = scans)

\* stop_monitoring's steps in order: the flag is down before the join, the
\* join is over before the score is stored, and what it returns is the
\* monitor's dict with the score stored in it
StopHandshake ==
    /\ pc \in {"stop_join", "stop_persist", "stop_rename"} => ~monitoring
    /\ pc \in {"stop_persist", "stop_rename"}
         => join_outcome \in {"no_thread", "joined", "timeout"}
    /\ (pc = "dynamic" /\ mon_pid # None /\ method = "process"
          /\ execution_result.pid = mon_pid)
         => /\ monitor_results = "alias"
            /\ saved_score >= 0
            /\ {"file_operations", "network_activity",
                "registry_operations"} \subseteq DOMAIN monitoring_data

\* C16: stop_monitoring clears the running flag, then joins with a bounded
\* wait, and once called it always comes back to execute_file (with the
\* monitor's records and score, or with the error of its log write),
\* whatever the monitoring thread does.
C16_StopNeverBlocks ==
    /\ []StopHandshake
    /\ (pc = "stop_flag") ~> (pc \in {"dynamic", "scan_raised"})

\* stop_monitoring has returned records while the thread is still inside
\* an inspection call
C16_Witness ==
    /\ pc = "dynamic"
    /\ join_outcome = "timeout"
    /\ mpc \in {"files", "network", "registry"}
    /\ monitor_results = "alias"
    /\ \E k \in DOMAIN monitoring_data : Len(monitoring_data[k]) >= 1

\* the lifecycle phase a position of execute_file belongs to: 1 Created
\* (static analysis, copy under way), 2 Prepared, 3 Executing,
\* 4 Monitoring, 5 Analyzed (analysis done, report under way),
\* 6 CleanedUp, 7 Failed; 0 outside a scan
PhaseOf(p) ==
    CASE p = "prepare" -> 1
      [] p = "elevate" -> 2
      [] p = "execute" -> 3
      [] p \in {"start_monitor", "wait", "stop_flag", "stop_join",
                "stop_persist", "stop_rename"} -> 4
      [] p \in {"dynamic", "report", "cleanup"} -> 5
      [] p = "returned" -> 6
      [] p = "scan_raised" -> 7
      [] OTHER -> 0

\* the positions from which a position of execute_file is entered
EnteredFrom(p) ==
    CASE p = "prepare" -> {"ready"}
      [] p = "elevate" -> {"prepare"}
      [] p = "execute" -> {"elevate"}
      [] p = "start_monitor" -> {"execute"}
      [] p = "wait" -> {"start_monitor"}
      [] p = "stop_flag" -> {"wait"}
      [] p = "stop_join" -> {"stop_flag"}
      [] p = "stop_persist" -> {"stop_join"}
      [] p = "stop_rename" -> {"stop_persist"}
      [] p = "dynamic" -> {"execute", "stop_rename"}
      [] p = "report" -> {"dynamic"}
      [] p = "cleanup" -> {"report"}
      [] p = "returned" -> {"cleanup"}
      [] p = "scan_raised" -> {"prepare", "stop_persist"}
      [] OTHER -> {"new", "pm_init", "get_env", "mkdir", "ready",
                   "returned"}

\* what holds of a scan at each of its positions
LifecycleState ==
    /\ PhaseOf(pc) \in 2..6 => "prepare" \notin errors
    /\ (\E i \in 1..Len(calls) : calls[i].scan = scans /\ scans > 0)
         => (PhaseOf(pc) \in {0, 3, 4, 5, 6, 7} /\ "prepare" \notin errors)
    /\ (session = scans /\ scans > 0)
         => \E i \in 1..Len(calls) :
              calls[i].scan = scans /\ calls[i].op = "execute_isolated"
    /\ PhaseOf(pc) = 4
         => (execution_result.status = "completed"
               /\ execution_result.pid # None)
    /\ (pc \in {"cleanup", "returned"} \/ cleanups > 0)
         => report.scan = scans

\* C17: a scan goes through its phases in the order Created, Prepared,
\* Executing, Monitoring (optional), Analyzed, CleanedUp, each position
\* entered from the one before it; backend calls come only after the copy
\* succeeded, monitoring only after a successful execution, the report
\* before any cleanup; and after an error raised out of the scan nothing
\* of it runs any more.
C17_LifecycleOrder ==
    /\ []LifecycleState
    /\ [][/\ pc' # pc
            => (pc \in EnteredFrom(pc')
                  /\ (PhaseOf(pc') >= PhaseOf(pc) \/ pc = "returned"))
          /\ pc = "scan_raised"
            => (pc' = pc /\ calls' = calls /\ report' = report
                  /\ dynamic_analysis' = dynamic_analysis
                  /\ cleanups' = cleanups)]_vars

\* a scan has gone through every phase, monitoring included
C17_Witness ==
    /\ pc = "returned"
    /\ session = scans
    /\ scans > 0
    /\ report.scan = scans
    /\ ~sandbox_dir

\* C18: the backend's execute_in_container is called only with a container
\* id that an earlier create_container call returned, and a scan whose
\* container creation failed has a failed execution.
C18_ExecuteAfterSetup ==
    /\ \A i \in 1..Len(calls) :
         calls[i].op = "execute_in_container"
           => /\ calls[i].handle # None
              /\ \E j \in 1..(i - 1) :
                   /\ calls[j].op = "create_container"
                   /\ calls[j].handle = calls[i].handle
    /\ ("create" \in errors /\ PhaseOf(pc) \in {4, 5, 6})
         => execution_result.status = "failed"

\* the backend calls made so far that release the handle h through op
Releases(op, h) ==
    Cardinality({i \in 1..Len(calls) :
                   calls[i].op = op /\ calls[i].handle = h})

\* C19: no container id and no process handle that a backend created gets
\* more than one remove/terminate call, and once the worker's last cleanup
\* is over each of them has got exactly one.
C19_ReleasedExactlyOnce ==
    /\ \A h \in 1..Len(containers) : Releases("remove_container", h) <= 1
    /\ \A h \in 1..Len(procs) : Releases("terminate_process", h) <= 1
    /\ pc = "finished"
         => /\ \A h \in 1..Len(containers) :
                 Releases("remove_container", h) = 1
            /\ \A h \in 1..Len(procs) :
                 Releases("terminate_process", h) = 1

\* C20: in a monitored scan the monitor is stopped only after the process
\* has ended or, at the timeout, a termination request was sent to it;
\* when a scan that timed out returns, it returns its report and its
\* process has ended.
C20_TimeoutTerminates ==
    /\ "timeout" \in errors
         => \E i \in 1..Len(calls) :
              /\ calls[i].scan = scans
              /\ calls[i].op = "terminate"
              /\ calls[i].handle = execution_result.process
    /\ pc \in {"stop_flag", "stop_join", "stop_persist", "stop_rename"}
         => ("timeout" \in errors
               \/ procs[execution_result.process] = "exited")
    /\ (pc = "returned" /\ "timeout" \in errors)
         => /\ report.scan = scans
            /\ procs[execution_result.process] = "exited"

\* C21: once an inspection call of a tick has raised (the process vanished
\* or access was denied while its open files, connections or modules were
\* enumerated), the monitoring thread of that session is out of its loop:
\* it goes on to no further sampling step; the scan has not raised for it.
C21_InspectionErrorStopsLoop ==
    "inspect" \in errors
      => /\ mpc = "done"
         /\ pc = "scan_raised" => errors \cap {"prepare", "persist"} # {}

\* the keywords of the table found in the bytes, by index
KeywordsPresent(content) ==
    {n \in DOMAIN Keywords : Contains(content, <<Keywords[n].kw>>)}

\* C22: analyze_file returns, for a file it can read, the score
\* min(extension weight + the weight of every table keyword present, 1.0)
\* with one finding for the extension and one per keyword present; for a
\* .exe file whose only table keyword is CreateProcess that is 0.6 with the
\* extension finding and the keyword finding, in that order.
C22_AnalyzeFileScore ==
    \A i \in 1..Len(td_calls) :
      (td_calls[i].op = "analyze_file" /\ td_file.readable) =>
        LET r == td_calls[i].result
            present == KeywordsPresent(td_file.content)
            count(lv) == Cardinality({n \in present : Keywords[n].level = lv})
            total == ExtensionScore(td_file.ext) + 100 * count("CRITICAL")
                     + 40 * count("HIGH") + 20 * count("MEDIUM")
                     + 10 * count("LOW")
        IN /\ r.threat_score = (IF total < 100 THEN total ELSE 100)
           /\ Len(r.threats)
                = Len(ExtensionThreats(td_file.ext)) + Cardinality(present)
           /\ (td_file.ext = ".exe" /\ present = {3}) =>
                /\ r.threat_score = 60
                /\ r.threats =
                     <<[type |-> "extension", details |-> ".exe",
                        confidence |-> 80],
                       [type |-> "keyword", details |-> "CreateProcess",
                        level |-> "HIGH"]>>

\* analyze_file has returned for a .exe file in which CreateProcess, twice,
\* is the only keyword of the table
C22_Witness ==
    /\ td_file.ext = ".exe"
    /\ td_file.readable
    /\ Len(td_file.content) = 3
    /\ KeywordsPresent(td_file.content) = {3}
    /\ \E i \in 1..Len(td_calls) :
         /\ td_calls[i].op = "analyze_file"
         /\ td_calls[i].result.threat_score = 60

\* the path matches a sensitive-path indicator of the monitor
SensitivePath(p) ==
    \E k \in 1..Len(SuspiciousFiles) : Contains(Text(p), SuspiciousFiles[k])

\* the records of the list recs that hold the path p
RecordsOf(recs, p) == {i \in 1..Len(recs) : recs[i].path = p}

\* C23: whatever open files the file step of a tick is about to be given,
\* it keeps the records it has, appends exactly one record for each path
\* not recorded before, and raises the running score by 10 for each
\* appended path that matches a sensitive-path indicator and by nothing
\* for any other path.
C23_SensitivePathScore ==
    (mpc = "files" /\ "file_accesses" \in DOMAIN monitoring_data) =>
      LET old == monitoring_data["file_accesses"]
      IN \A l \in SeqsUpTo(target.paths, 2) :
           LET r == FileActivity(l, old, threat_score, <<scans, ticks + 1>>)
               fresh == {l[i] : i \in 1..Len(l)}
                          \ {old[i].path : i \in 1..Len(old)}
           IN /\ IsPrefix(old, r.recs)
              /\ Len(r.recs) = Len(old) + Cardinality(fresh)
              /\ \A p \in fresh : Cardinality(RecordsOf(r.recs, p)) = 1
              /\ r.score = threat_score
                   + 10 * Cardinality({p \in fresh : SensitivePath(p)})

\* the first file step of a session found /etc/passwd open: one record,
\* ten points
C23_Witness ==
    /\ mpc = "network"
    /\ ticks = 0
    /\ "file_accesses" \in DOMAIN monitoring_data
    /\ Len(monitoring_data["file_accesses"]) = 1
    /\ monitoring_data["file_accesses"][1].path = "passwd"
    /\ threat_score = 10

\* the remote endpoint matches a suspicious-port/domain indicator
SuspiciousRemote(q) ==
    \E k \in 1..Len(SuspiciousNetwork) :
        Contains(Text(q), SuspiciousNetwork[k])

\* the network records of the session, under the name the list has before
\* and after stop_monitoring
NetworkRecords ==
    GetList(monitoring_data, "network_connections")
    \o GetList(monitoring_data, "network_activity")

\* C24: in a session of a target that shows network activity only, the
\* running threat score is 20 for each recorded remote endpoint that
\* matches an indicator: an endpoint that stays established over several
\* ticks counts once.
C24_NetworkIncrementOnce ==
    (target.paths = {} /\ target.dlls = {}) =>
        threat_score =
            20 * Cardinality({i \in 1..Len(NetworkRecords) :
                                SuspiciousRemote(NetworkRecords[i].remote)})

\* C25: once a Sandbox is built, the level it holds and the level of its
\* isolation environment are both one of low, medium, high: a level string
\* that is none of them was replaced by medium in each.
C25_LevelNormalized ==
    pc \notin {"new", "pm_init", "get_env", "ctor_raised"} =>
        /\ isolation_env.security_level \in {"low", "medium", "high"}
        /\ security_level \in {"low", "medium", "high"}

\* C26: the score either analysis returns is the capped sum of one weight
\* per finding, taken from the table critical 1.0, high 0.4, medium 0.2,
\* low 0.1 and none 0 (for analyze_file, on top of the extension weight).
C26_SeverityWeights ==
    \A i \in 1..Len(td_calls) :
      LET r == td_calls[i].result
          sev(t) == IF "level" \in DOMAIN t THEN t.level
                    ELSE IF "threat_level" \in DOMAIN t THEN t.threat_level
                    ELSE "NONE"
          count(lv) == Cardinality({k \in 1..Len(r.threats) :
                                      sev(r.threats[k]) = lv})
          base == IF td_calls[i].op = "analyze_file"
                  THEN ExtensionScore(td_file.ext) ELSE 0
          total == base + 100 * count("CRITICAL") + 40 * count("HIGH")
                   + 20 * count("MEDIUM") + 10 * count("LOW")
                   + 0 * count("NONE")
      IN r.threat_score = (IF total < 100 THEN total ELSE 100)

\* the records of an activity report in the order analyze_report reads them
AllEntries(rep) ==
    GetList(rep, "file_operations") \o GetList(rep, "network_activity")
    \o GetList(rep, "registry_operations")

\* the (record, signature) pairs of a report in which the record holds at
\* least one indicator of the signature, on a platform the signature is for
MatchingPairs(rep, sys) ==
    {p \in (1..Len(AllEntries(rep))) \X (1..Len(signatures)) :
        /\ SignatureApplies(signatures[p[2]], sys)
        /\ \E k \in 1..Len(signatures[p[2]].indicators) :
             Contains(DataStr(AllEntries(rep)[p[1]]),
                      LowerStr(signatures[p[2]].indicators[k]))}

\* C27: analyze_report returns one finding for each (record, signature)
\* pair that matches, however many indicators of the signature the record
\* holds: at most records times signatures findings, and the score is the
\* capped sum of one severity weight per matching pair.
C27_OneFindingPerSignature ==
    \A i \in 1..Len(td_calls) :
      td_calls[i].op = "analyze_report" =>
        LET r == td_calls[i].result
            pairs == MatchingPairs(td_report, system)
            count(sv) == Cardinality({p \in pairs :
                                        signatures[p[2]].severity = sv})
            total == SeverityWeight("CRITICAL") * count("CRITICAL")
                     + SeverityWeight("HIGH") * count("HIGH")
                     + SeverityWeight("MEDIUM") * count("MEDIUM")
                     + SeverityWeight("LOW") * count("LOW")
                     + SeverityWeight("NONE") * count("NONE")
        IN /\ Len(r.threats) = Cardinality(pairs)
           /\ Len(r.threats)
                <= Len(AllEntries(td_report)) * Len(signatures)
           /\ r.threat_score = (IF total < 100 THEN total ELSE 100)

\* analyze_report has returned one finding for a single record that holds
\* two indicators of SIG-003 (malicious.example.com and :4444)
C27_Witness ==
    /\ Len(AllEntries(td_report)) = 1
    /\ "remote" \in DOMAIN AllEntries(td_report)[1]
    /\ AllEntries(td_report)[1].remote = "c2dom"
    /\ \E i \in 1..Len(td_calls) :
         /\ td_calls[i].op = "analyze_report"
         /\ Len(td_calls[i].result.threats) = 1
         /\ td_calls[i].result.threats[1].signature_id = "SIG-003"
         /\ td_calls[i].result.threat_score = 40

\* the scan is one execute_file attaches the monitor to
MonitoredScan ==
    method = "process" /\ monitor /\ execution_result.pid # None

\* C28: start_monitoring is called, and the monitoring thread started, only
\* in a process scan with monitoring requested and a pid; in every other
\* scan, once the execution is over, the monitor has not been started, the
\* activity report is empty, the dynamic analysis returns score 0 with no
\* finding and the report's combined score is the static score.
C28_MonitorOnlyForProcess ==
    /\ (scans > 0 /\ (session = scans \/ mon_pid # None \/ mpc # "none"))
         => MonitoredScan
    /\ (pc \in {"dynamic", "report", "cleanup", "returned"}
          /\ ~MonitoredScan)
         => /\ monitor_results = "empty"
            /\ MonitorResults = <<>>
            /\ mpc = "none"
            /\ session # scans
            /\ pc # "dynamic"
                 => dynamic_analysis = [threat_score |-> 0, threats |-> <<>>]
            /\ pc \in {"cleanup", "returned"}
                 => /\ report.threat_level = analysis_result.threat_level
                    /\ report.threats = analysis_result.threats
                    /\ report.file_operations = <<>>
                    /\ report.network_activity = <<>>
                    /\ report.registry_operations = <<>>

\* a container scan of a file with static findings has returned its report
\* of a completed run
C28_Witness ==
    /\ pc = "returned"
    /\ method = "container"
    /\ isolation_env.kind = "container"
    /\ monitor
    /\ report.status = "completed"
    /\ analysis_result.threat_level > 0
    /\ report.threat_level = analysis_result.threat_level

\* C29: a static analysis that failed on its file (the file could not be
\* read) has contributed the score zero and a diagnostic finding, and the
\* scan has not been aborted for it.
C29_AnalysisErrorRecovered ==
    (scans > 0 /\ analysis_result.error = "Analysis failed") =>
        /\ analysis_result.threat_level = 0
        /\ analysis_result.threats # <<>>
        /\ pc # "scan_raised"

C31_PlatformMatch ==
    \A i \in 1..Len(td_calls) :
      td_calls[i].op = "analyze_report" =>
        LET entries == AllEntries(td_report)
            holds(e, sig) ==
                \E k \in 1..Len(sig.indicators) :
                    Contains(DataStr(e), LowerStr(sig.indicators[k]))
            due == {p \in (1..Len(entries)) \X (1..Len(signatures)) :
                      /\ holds(entries[p[1]], signatures[p[2]])
                      /\ (PlatformOf(system) \in signatures[p[2]].platforms
                            \/ "all" \in signatures[p[2]].platforms)}
        IN /\ Len(td_calls[i].result.threats) = Cardinality(due)
           /\ \A p \in due :
                \E k \in 1..Len(td_calls[i].result.threats) :
                    td_calls[i].result.threats[k].signature_id
                      = signatures[p[2]].id

\* a report was built and handed back by execute_file in this run
ScanCompleted == scans >= 1 /\ report.scan = scans

\* the path given on the command line names no file
TargetMissing == scans = 0 /\ probes = <<>> /\ ~file.exists

\* neither the requested variant nor its fallback passes is_available()
NoBackend == ~processAvail /\ (method = "container" => ~containerAvail)

AfterJoin == {"stop_persist", "stop_rename", "dynamic", "report"}

\* C33: once the join of stop_monitoring is over, the monitoring thread is
\* in no sampling step while the foreground task persists, renames and
\* reads the activity report, and no record or score update of the thread
\* comes after the persist: the score stored in the report stays the
\* monitor's running score and the lists handed to the analysis stay as
\* they were persisted.
C33_NoConcurrentAccess ==
    (session = scans /\ session > 0 /\ pc \in AfterJoin) =>
        /\ mpc \notin {"files", "network", "registry"}
        /\ pc # "stop_persist" => saved_score = threat_score

\* scores the monitor may have stored in the dict it returned
RunningScores == {0, 20, 40, 60, 80, 100}

\* C34: the combined score and the findings of a report are those of the
\* static result and the activity records alone: whatever score the
\* monitor stored in the dict it returned, the dynamic analysis of that
\* dict gives the score and the findings the report was built from.
C34_MonitorScoreAdvisory ==
    (ReportBuilt /\ monitor_results = "alias") =>
        \A s \in RunningScores \cup {saved_score} :
            LET d == AnalyzeReport(WithScore(MonitorResults, s), system)
            IN /\ report.threat_level
                    = CombinedScore(analysis_result.threat_level,
                                    d.threat_score)
               /\ report.threats = analysis_result.threats \o d.threats

\* a report built after a session whose running score is not the score of
\* the dynamic analysis
C34_Witness ==
    /\ ReportBuilt
    /\ monitor_results = "alias"
    /\ saved_score > 0
    /\ saved_score # dynamic_analysis.threat_score
    /\ report.threat_level < 100

\* the monitoring thread is alive
ThreadAlive == mpc \notin {"none", "done"}

\* what ends the loop: the flag is cleared or the process is gone
StopCondition ==
    mon_pid # None /\ (~monitoring \/ procs[mon_pid] = "exited")

\* C35: with the monitoring thread scheduled and its inspection calls
\* returning, once the monitored process has exited or the running flag is
\* cleared the condition stays, the loop test that observes it ends the
\* thread without a further sample (so at most the tick under way is
\* completed), and the thread does end.
C35_LoopTerminates ==
    /\ [][(ThreadAlive /\ StopCondition)
            => /\ StopCondition'
               /\ ticks' <= ticks + 1
               /\ (mpc = "check" /\ mpc' # mpc) => mpc' = "done"
               /\ (mpc = "sleep" /\ mpc' # mpc) => mpc' = "check"]_vars
    /\ (ThreadAlive /\ StopCondition) ~> (mpc = "done")

\* the thread has ended on the cleared flag, its process still running,
\* after at least one completed tick
C35_Witness ==
    /\ mpc = "done"
    /\ ~monitoring
    /\ mon_pid # None
    /\ procs[mon_pid] = "running"
    /\ ticks >= 1

\* C36: the exit_code of the report of a completed scan is the exit status
\* the isolation backend reported for the process it executed, under the
\* process variant as under the container variant.
C36_ExitCodeReported ==
    (ReportBuilt /\ report.status = "completed") =>
        /\ backend_exit # NoExit
        /\ report.exit_code = backend_exit

\* the handle of the backend call calls[i] was given back by a later call
ReleasedLater(i) ==
    \E j \in (i + 1)..Len(calls) :
        /\ calls[j].handle = calls[i].handle
        /\ calls[j].op = IF calls[i].op = "create_container"
                         THEN "remove_container" ELSE "terminate_process"

\* C37: when Sandbox.cleanup has returned at the end of a scan, the
\* teardown of the isolation environment has been invoked for every
\* container id and process handle the backend had handed out (on the
\* backends that define the teardown call), whether or not the removal of
\* the workspace directory succeeded.
C37_TeardownAlwaysInvoked ==
    (pc = "returned"
       /\ (isolation_env.kind = "process" \/ HasRemoveContainer(system))) =>
        \A i \in 1..Len(calls) :
            (calls[i].op \in {"create_container", "execute_isolated"}
               /\ calls[i].handle # None)
              => ReleasedLater(i)

\* the three record lists of a dict stop_monitoring returned
ReturnedRecords(d) ==
    [k \in {"file_operations", "network_activity", "registry_operations"}
       |-> GetList(d, k)]

\* C38: a second call of stop_monitoring on the same monitor returns the
\* file, network and registry records and the score the first call
\* returned.
C38_StopIdempotent ==
    pc = "stopped_twice" =>
        /\ ReturnedRecords(monitoring_data)
             = ReturnedRecords(first_stop.records)
        /\ saved_score = first_stop.score

\* records of an activity list that carry the stamp of another scan
CarriedOver(recs) ==
    {i \in 1..Len(recs) : recs[i].timestamp[1] # scans}

\* C39: when one Sandbox runs several scans in sequence, the monitoring
\* session of every scan starts from the empty record set and a running
\* score of zero, and the report of a scan holds no record of an earlier
\* scan and every record the monitor made during the scan.
C39_SessionsIndependent ==
    /\ (session = scans /\ session > 0 /\ pc = "wait" /\ mpc = "entry")
         => /\ monitoring_data = FreshMonitoringData
            /\ threat_score = 0
    /\ (ReportBuilt /\ monitor_results = "alias")
         => /\ CarriedOver(report.file_operations) = {}
            /\ CarriedOver(report.network_activity) = {}
            /\ CarriedOver(report.registry_operations) = {}
            /\ report.file_operations
                 = GetList(monitoring_data, "file_operations")
====
